---- MODULE Spec2Model ----
(***************************************************************************)
(* Deck signatures (src/src/hashing.py) and archetype clustering           *)
(* (src/scripts/cluster_decks.py) of the PokemonTCGP repository.           *)
(*                                                                         *)
(* Real numbers: every weight of the clusterer is a multiple of 0.125 and  *)
(* the comparison tolerance is 1e-6, so all reals are held as integers in  *)
(* units of 1e-6 (1.0 is 1000000).  The float32 values the code computes   *)
(* are small multiples of 0.125 and therefore exact.                       *)
(***************************************************************************)
EXTENDS Integers, Sequences, FiniteSets

(***************************************************************************)
(* Bounds of the model.                                                    *)
(***************************************************************************)
\* Largest number of deck records in the aggregation cache handed to the clusterer.
MaxDecks == 3
\* Largest number of card entries of a deck whose distances are computed.
MaxEntries == 3
\* Largest number of raw card items handed to compute_deck_signature.
MaxLen == 3
\* Largest os.cpu_count() of the machine the clusterer runs on.
MaxWorkers == 2

(***************************************************************************)
(* Strings.  Python orders strings by code point; StrRank gives the        *)
(* position of each string of the model in that order.                     *)
(***************************************************************************)
SortedStrings ==
    << "", "000", "003", "007", "009", "050", "094", "100", "206",
       "A1", "A2", "Eevee", "Energy", "Fire", "Mew", "P-A", "Pikachu", "Pokemon",
       "Research", "Shrine", "Stadium", "Support", "Unknown", "Zacian" >>

StrRank(s) == CHOOSE i \in 1..Len(SortedStrings) : SortedStrings[i] = s

\* Lexicographic order on tuples of strings (Python's tuple comparison).
RECURSIVE TupleLess(_, _)
TupleLess(a, b) ==
    IF a = << >> THEN b # << >>
    ELSE IF b = << >> THEN FALSE
    ELSE IF Head(a) = Head(b) THEN TupleLess(Tail(a), Tail(b))
    ELSE StrRank(Head(a)) < StrRank(Head(b))

RECURSIVE SumOver(_, _)
\* sum of f[x] over the finite set S
SumOver(f, S) ==
    IF S = {} THEN 0
    ELSE LET x == CHOOSE y \in S : TRUE IN f[x] + SumOver(f, S \ {x})

Max(a, b) == IF a >= b THEN a ELSE b
Min(a, b) == IF a <= b THEN a ELSE b
Abs(a) == IF a >= 0 THEN a ELSE -a

(***************************************************************************)
(* The card database: the prints a deck list can name, in the order        *)
(* (name, set, number).  Pikachu has two prints: the same name under two   *)
(* (set, number) identities.                                               *)
(***************************************************************************)
CardDB ==
    << [name |-> "Eevee",    set |-> "A1",  number |-> "206", type |-> "Pokemon"],
       [name |-> "Mew",      set |-> "A1",  number |-> "003", type |-> "Pokemon"],
       [name |-> "Pikachu",  set |-> "A1",  number |-> "094", type |-> "Pokemon"],
       [name |-> "Pikachu",  set |-> "P-A", number |-> "009", type |-> "Pokemon"],
       [name |-> "Research", set |-> "P-A", number |-> "007", type |-> "Support"],
       [name |-> "Shrine",   set |-> "A2",  number |-> "050", type |-> "Stadium"],
       [name |-> "Zacian",   set |-> "A1",  number |-> "100", type |-> "Pokemon"] >>

\* count \in {1, 2}: the data model's card count
Counts == {1, 2}

Entry(p, n) ==
    [name |-> CardDB[p].name, set |-> CardDB[p].set, number |-> CardDB[p].number,
     count |-> n, type |-> CardDB[p].type]

RECURSIVE CardsOf(_, _)
\* the card list of the deck holding print p in c[p] copies, in CardDB order
CardsOf(c, ps) ==
    IF ps = {} THEN << >>
    ELSE LET p == CHOOSE q \in ps : \A r \in ps : q <= r
         IN  << Entry(p, c[p]) >> \o CardsOf(c, ps \ {p})

\* every card list of 1..n entries over the prints P, each print at most
\* once and in a number of copies of C
DecksOver(P, n, C) ==
    UNION { { CardsOf(c, ps) : c \in [ps -> C] } :
            ps \in { q \in SUBSET P : Cardinality(q) \in 1..n } }

(***************************************************************************)
(* get_binary_features_and_buckets.  sgs is the signatures mapping in its  *)
(* iteration order: a sequence of records with fields sig and cards.  Rows *)
(* (decks), feature columns and bucket ids count from 0 as in the source.  *)
(***************************************************************************)
\* weights of the distance, in units of 1e-6
W_POKEMON == 500000
W_OTHER == 125000
\* tolerance of the threshold comparison, in units of 1e-6
EPSILON == 1

CardKey(c) == << c.name, c.type >>

all_card_keys(sgs) ==
    UNION { { CardKey(sgs[i].cards[j]) : j \in 1..Len(sgs[i].cards) } : i \in 1..Len(sgs) }

RECURSIVE SortKeys(_)
\* sorted(list(K)) for a set K of (name, type) keys
SortKeys(K) ==
    IF K = {} THEN << >>
    ELSE LET m == CHOOSE k \in K : \A o \in K \ {k} : TupleLess(k, o)
         IN  << m >> \o SortKeys(K \ {m})

sorted_keys(sgs) == SortKeys(all_card_keys(sgs))

\* key_to_idx[key], for keys = sorted_keys
key_to_idx(keys, key) == (CHOOSE i \in 1..Len(keys) : keys[i] = key) - 1

WeightOfType(c_type) == IF c_type = "Pokemon" THEN W_POKEMON ELSE W_OTHER

\* base_weights[i]
base_weights(keys) == [i \in 0..Len(keys) - 1 |-> WeightOfType(keys[i + 1][2])]

\* feature_weights[2*i] = feature_weights[2*i+1] = 2 * w
feature_weights(keys) ==
    [col \in 0..2 * Len(keys) - 1 |-> 2 * WeightOfType(keys[(col \div 2) + 1][2])]

\* the entries of a card list whose key has feature index k
EntriesAt(cards, keys, k) ==
    { j \in 1..Len(cards) : key_to_idx(keys, CardKey(cards[j])) = k }

\* One row of F_binary: csr_matrix sums the values appended for the same
\* (row, column), so an element is the number of entries appended for it:
\* column 2k for count >= 1, column 2k+1 for count >= 2.
F_row(cards, keys) ==
    [col \in 0..2 * Len(keys) - 1 |->
        IF col % 2 = 0
        THEN Cardinality({ j \in EntriesAt(cards, keys, col \div 2) : cards[j].count >= 1 })
        ELSE Cardinality({ j \in EntriesAt(cards, keys, col \div 2) : cards[j].count >= 2 })]

\* One row of X1_binary: entries with count == 1.
X1_row(cards, keys) ==
    [k \in 0..Len(keys) - 1 |->
        Cardinality({ j \in EntriesAt(cards, keys, k) : cards[j].count = 1 })]

\* One row of X2_binary: entries with count >= 2.
X2_row(cards, keys) ==
    [k \in 0..Len(keys) - 1 |->
        Cardinality({ j \in EntriesAt(cards, keys, k) : cards[j].count >= 2 })]

F_binary(sgs, keys) == [row \in 0..Len(sgs) - 1 |-> F_row(sgs[row + 1].cards, keys)]
X1_binary(sgs, keys) == [row \in 0..Len(sgs) - 1 |-> X1_row(sgs[row + 1].cards, keys)]
X2_binary(sgs, keys) == [row \in 0..Len(sgs) - 1 |-> X2_row(sgs[row + 1].cards, keys)]

\* pokemon_set of a deck: the feature indices of its Pokemon entries
pokemon_set(cards, keys) ==
    { key_to_idx(keys, CardKey(cards[j])) :
        j \in { i \in 1..Len(cards) : cards[i].type = "Pokemon" } }

RECURSIVE TwoTo(_)
TwoTo(n) == IF n = 0 THEN 1 ELSE 2 * TwoTo(n - 1)

\* mask |= (1 << p_idx) for p_idx in p_frozen
MaskOf(p_frozen) == SumOver([k \in p_frozen |-> TwoTo(k)], p_frozen)

RECURSIVE UniqueBuckets(_, _, _)
\* unique_buckets as the sequence of distinct pokemon sets in the order of
\* their bucket ids (first appearance over the rows)
UniqueBuckets(sgs, keys, row) ==
    IF row = 0 THEN << >>
    ELSE LET prev == UniqueBuckets(sgs, keys, row - 1)
             p == pokemon_set(sgs[row].cards, keys)
         IN  IF \E b \in 1..Len(prev) : prev[b] = p THEN prev ELSE Append(prev, p)

\* bucket_bitmasks[bid]
bucket_bitmasks(ub) == [bid \in 0..Len(ub) - 1 |-> MaskOf(ub[bid + 1])]

RECURSIVE RowsIn(_, _, _, _)
\* the rows lo..n-1 whose pokemon set is p, ascending
RowsIn(sgs, keys, p, lo) ==
    IF lo > Len(sgs) - 1 THEN << >>
    ELSE (IF pokemon_set(sgs[lo + 1].cards, keys) = p THEN << lo >> ELSE << >>)
         \o RowsIn(sgs, keys, p, lo + 1)

\* buckets[bid]: the rows of the bucket, in row order
BucketsOf(sgs, keys, ub) == [bid \in 0..Len(ub) - 1 |-> RowsIn(sgs, keys, ub[bid + 1], 0)]

\* norms = F_bin.dot(F_w)
Dot(u, v) == SumOver([i \in DOMAIN u |-> u[i] * v[i]], DOMAIN u)
Dot3(u, w, v) == SumOver([i \in DOMAIN u |-> u[i] * w[i] * v[i]], DOMAIN u)


(***************************************************************************)
(* init_worker_full: the read-only context every worker holds.             *)
(***************************************************************************)
WorkerContext(sgs) ==
    LET keys == sorted_keys(sgs)
        ub == UniqueBuckets(sgs, keys, Len(sgs))
        F == F_binary(sgs, keys)
        Fw == feature_weights(keys)
    IN  [masks |-> bucket_bitmasks(ub),
         F_bin |-> F,
         F_w |-> Fw,
         X1 |-> X1_binary(sgs, keys),
         X2 |-> X2_binary(sgs, keys),
         base_w |-> base_weights(keys),
         norms |-> [row \in 0..Len(sgs) - 1 |-> Dot(F[row], Fw)]]

\* buckets, as get_binary_features_and_buckets returns them
Buckets(sgs) ==
    LET keys == sorted_keys(sgs)
    IN  BucketsOf(sgs, keys, UniqueBuckets(sgs, keys, Len(sgs)))

(***************************************************************************)
(* calculate_dist_worker: the distance of rows r and c, and the match test.*)
(***************************************************************************)
\* inters = F_weighted[rows].multiply(F_bin[cols]).sum(axis=1)
Inters(ctx, r, c) == Dot3(ctx.F_bin[r], ctx.F_w, ctx.F_bin[c])

\* corr1 = X1_weighted[rows].multiply(X2[cols]).sum(axis=1)
Corr1(ctx, r, c) == Dot3(ctx.X1[r], ctx.base_w, ctx.X2[c])

\* corr2 = X2_weighted[rows].multiply(X1[cols]).sum(axis=1)
Corr2(ctx, r, c) == Dot3(ctx.X2[r], ctx.base_w, ctx.X1[c])

\* Dists without the correction term
DistsNoCorrection(ctx, r, c) ==
    ctx.norms[r] + ctx.norms[c] - 2 * Inters(ctx, r, c)

\* Dists with the correction taken from the row side only
DistsOneSided(ctx, r, c) ==
    ctx.norms[r] + ctx.norms[c] - 2 * Inters(ctx, r, c) - 2 * Corr1(ctx, r, c)

\* dists = n_r + n_c - 2 * inters - correction
Dists(ctx, r, c) ==
    ctx.norms[r] + ctx.norms[c] - 2 * Inters(ctx, r, c) - (Corr1(ctx, r, c) + Corr2(ctx, r, c))

\* match_mask = dists <= (threshold + 1e-6)
\* the match test without the boundary
MatchMaskStrict(ctx, r, c, thr) == Dists(ctx, r, c) < thr

MatchMask(ctx, r, c, thr) == Dists(ctx, r, c) <= thr + EPSILON

RECURSIVE SelectSeq2(_, _, _)
\* the pairs of the chunk that match, in chunk order (rows[idx], cols[idx])
SelectSeq2(ctx, pairs, thr) ==
    IF pairs = << >> THEN << >>
    ELSE (IF MatchMask(ctx, Head(pairs)[1], Head(pairs)[2], thr)
          THEN << Head(pairs) >> ELSE << >>)
         \o SelectSeq2(ctx, Tail(pairs), thr)

\* the chunk's result; None, None is the empty sequence
calculate_dist_worker(ctx, pairs, thr) == SelectSeq2(ctx, pairs, thr)

(***************************************************************************)
(* find_bucket_neighbors_worker.                                           *)
(***************************************************************************)
RECURSIVE BitAnd(_, _)
BitAnd(a, b) ==
    IF a = 0 \/ b = 0 THEN 0
    ELSE (a % 2) * (b % 2) + 2 * BitAnd(a \div 2, b \div 2)

RECURSIVE BitXor(_, _)
BitXor(a, b) ==
    IF a = 0 THEN b
    ELSE IF b = 0 THEN a
    ELSE ((a + b) % 2) + 2 * BitXor(a \div 2, b \div 2)

\* MasksAdjacent without the third test: masks that differ in at most one bit
MasksAdjacentOneBit(m1, m2) ==
    LET xor_val == BitXor(m1, m2)
    IN  \/ xor_val = 0
        \/ BitAnd(xor_val, xor_val - 1) = 0

\* the three tests of the inner loop: xor_val == 0, y == 0, z == 0
MasksAdjacent(m1, m2) ==
    LET xor_val == BitXor(m1, m2)
    IN  \/ xor_val = 0
        \/ LET y == BitAnd(xor_val, xor_val - 1)
           IN  \/ y = 0
               \/ BitAnd(y, y - 1) = 0

RECURSIVE NeighborsFrom(_, _, _)
\* the pairs (i, j) appended for j in range(j, n_masks)
NeighborsFrom(masks, i, j) ==
    IF j > Cardinality(DOMAIN masks) - 1 THEN << >>
    ELSE (IF MasksAdjacent(masks[i], masks[j]) THEN << << i, j >> >> ELSE << >>)
         \o NeighborsFrom(masks, i, j + 1)

RECURSIVE find_bucket_neighbors_worker(_, _, _)
\* results for i in range(start_idx, end_idx)
find_bucket_neighbors_worker(masks, start_idx, end_idx) ==
    IF start_idx >= end_idx THEN << >>
    ELSE << << start_idx, start_idx >> >>
         \o NeighborsFrom(masks, start_idx, start_idx + 1)
         \o find_bucket_neighbors_worker(masks, start_idx + 1, end_idx)


(***************************************************************************)
(* compute_deck_signature (src/src/hashing.py).  A raw card item is a      *)
(* record: kind is "str" (a bare name, held in field name), "dict" or      *)
(* "other"; has is the set of keys a dict item carries.                    *)
(***************************************************************************)
DictGet(card, key, default) == IF key \in card.has THEN card[key] ELSE default

\* Normalize keeping the item's type key as well
NormalizeKeepType(card) ==
    IF card.kind = "str"
    THEN [name |-> card.name, set |-> "Energy", number |-> "000", count |-> 1]
    ELSE [name |-> DictGet(card, "name", "Unknown"),
          set |-> DictGet(card, "set", ""),
          number |-> DictGet(card, "number", ""),
          count |-> DictGet(card, "count", 1),
          type |-> card.type]

\* the normalized item of one str or dict item
Normalize(card) ==
    IF card.kind = "str"
    THEN [name |-> card.name, set |-> "Energy", number |-> "000", count |-> 1]
    ELSE [name |-> DictGet(card, "name", "Unknown"),
          set |-> DictGet(card, "set", ""),
          number |-> DictGet(card, "number", ""),
          count |-> DictGet(card, "count", 1)]

RECURSIVE NormalizeAllKeepingOthers(_)
\* NormalizeAll giving an item that is neither str nor dict the entry of an
\* empty dict
NormalizeAllKeepingOthers(cards) ==
    IF cards = << >> THEN << >>
    ELSE << Normalize([Head(cards) EXCEPT !.has = {}]) >> \o NormalizeAllKeepingOthers(Tail(cards))

RECURSIVE NormalizeAll(_)
\* the loop over cards: items that are neither str nor dict are skipped
NormalizeAll(cards) ==
    IF cards = << >> THEN << >>
    ELSE (IF Head(cards).kind \in {"str", "dict"}
          THEN << Normalize(Head(cards)) >> ELSE << >>)
         \o NormalizeAll(Tail(cards))

\* key=lambda x: (x["name"], x["set"], x["number"])
SortKey(x) == << x.name, x.set, x.number >>

RECURSIVE InsertStable(_, _)
\* x placed behind every item whose key is not greater than its own
InsertStable(sorted, x) ==
    IF sorted = << >> THEN << x >>
    ELSE IF TupleLess(SortKey(x), SortKey(Head(sorted)))
         THEN << x >> \o sorted
         ELSE << Head(sorted) >> \o InsertStable(Tail(sorted), x)

RECURSIVE StableSort(_, _)
\* list.sort(key=...): stable, items of equal key keep their input order
StableSort(done, rest) ==
    IF rest = << >> THEN done
    ELSE StableSort(InsertStable(done, Head(rest)), Tail(rest))

\* json.dumps(normalized_items, separators=(",", ":")): the items in order,
\* each with the values of its keys in insertion order
json_dumps(items) ==
    [i \in 1..Len(items) |->
        << items[i].name, items[i].set, items[i].number, items[i].count >>
        \o (IF "type" \in DOMAIN items[i] THEN << items[i].type >> ELSE << >>)]

\* hashlib.sha256(deck_str).hexdigest()[:8]: a digest of the serialized
\* text, taken to be free of collisions
sha256_8(deck_str) == << "sha256", deck_str >>

compute_deck_signature(cards) ==
    LET normalized_items == StableSort(<< >>, NormalizeAll(cards))
    IN  [hash_str |-> sha256_8(json_dumps(normalized_items)),
         normalized_items |-> normalized_items]


(***************************************************************************)
(* cluster_decks_bucketed_parallel: the coordinating process's helpers.    *)
(***************************************************************************)
\* dist_chunk_size
DIST_CHUNK_SIZE == 50000

RECURSIVE RangeChunksUnclamped(_, _, _)
\* RangeChunks without the min
RangeChunksUnclamped(i, n, size) ==
    IF i >= n THEN << >>
    ELSE << << i, i + size >> >> \o RangeChunksUnclamped(i + size, n, size)

RECURSIVE RangeChunks(_, _, _)
\* for i in range(i, n, size): (i, min(i + size, n))
RangeChunks(i, n, size) ==
    IF i >= n THEN << >>
    ELSE << << i, Min(i + size, n) >> >> \o RangeChunks(i + size, n, size)

\* ranges, from chunk_size = (n_buckets + n_workers - 1) // n_workers
BucketRanges(n_buckets, workers) ==
    RangeChunks(0, n_buckets, (n_buckets + workers - 1) \div workers)

\* bucket_adj is a defaultdict(list): keys in insertion order, a list per key
EmptyAdj(n_buckets) == [keys |-> << >>, adj |-> [b \in 0..n_buckets - 1 |-> << >>]]

\* the appends of "for b1, b2 in sub_res" in their order: (key, value, done),
\* b2 to b1's list and then, if b1 != b2, b1 to b2's list
AdjAppends(sub_res) ==
    [n \in 1..2 * Len(sub_res) |->
        LET pr == sub_res[(n + 1) \div 2]
        IN  IF n % 2 = 1 THEN << pr[1], pr[2], TRUE >>
            ELSE << pr[2], pr[1], pr[1] # pr[2] >>]

\* bucket_adj after the appends of sub_res: a key enters the dict at its
\* first append
MergeBucketPairs(ba, sub_res) ==
    LET T == AdjAppends(sub_res)
        To(bk) == { n \in 1..Len(T) : T[n][3] /\ T[n][1] = bk }
        Old == { ba.keys[i] : i \in 1..Len(ba.keys) }
        New == { T[n][1] : n \in { m \in 1..Len(T) : T[m][3] } } \ Old
        First(bk) == CHOOSE n \in To(bk) : \A m \in To(bk) : n <= m
        Listed(bk) ==
            [i \in 1..Cardinality(To(bk)) |->
                T[CHOOSE n \in To(bk) : Cardinality({ m \in To(bk) : m < n }) = i - 1][2]]
    IN  [keys |-> ba.keys \o
                  [i \in 1..Cardinality(New) |->
                      CHOOSE bk \in New :
                          Cardinality({ c \in New : First(c) < First(bk) }) = i - 1],
         adj |-> [bk \in DOMAIN ba.adj |-> ba.adj[bk] \o Listed(bk)]]

\* the pair in the order of its buckets
BucketOrderPair(d1, d2) == << d1, d2 >>

OrderedPair(d1, d2) == IF d1 < d2 THEN << d1, d2 >> ELSE << d2, d1 >>

RECURSIVE PairsSame(_, _, _)
\* for i in range(n): for j in range(i+1, n): the pair of decks1[i], decks1[j]
PairsSame(decks1, i, j) ==
    IF i > Len(decks1) THEN << >>
    ELSE IF j > Len(decks1) THEN PairsSame(decks1, i + 1, i + 2)
    ELSE << OrderedPair(decks1[i], decks1[j]) >> \o PairsSame(decks1, i, j + 1)

RECURSIVE PairsCross(_, _, _, _)
\* for d1 in decks1: for d2 in decks2: the pair of d1, d2
PairsCross(decks1, decks2, i, j) ==
    IF i > Len(decks1) THEN << >>
    ELSE IF j > Len(decks2) THEN PairsCross(decks1, decks2, i + 1, 1)
    ELSE << OrderedPair(decks1[i], decks2[j]) >> \o PairsCross(decks1, decks2, i, j + 1)

RECURSIVE CandidatesOfBucket(_, _, _)
\* for b2 in neighbors: skipped when b2 < b1
CandidatesOfBucket(bks, b1, neighbors) ==
    IF neighbors = << >> THEN << >>
    ELSE LET b2 == Head(neighbors)
         IN  (IF b2 < b1 THEN << >>
              ELSE IF b1 = b2 THEN PairsSame(bks[b1], 1, 2)
              ELSE PairsCross(bks[b1], bks[b2], 1, 1))
             \o CandidatesOfBucket(bks, b1, Tail(neighbors))

RECURSIVE CandidatePairs(_, _, _)
\* for b1, neighbors in bucket_adj.items()
CandidatePairs(bks, ba, keys) ==
    IF keys = << >> THEN << >>
    ELSE CandidatesOfBucket(bks, Head(keys), ba.adj[Head(keys)])
         \o CandidatePairs(bks, ba, Tail(keys))

RECURSIVE DistChunks(_, _, _)
\* for start in range(0, n_candidates, dist_chunk_size): the pairs start..end-1
DistChunks(pairs, start, size) ==
    IF start >= Len(pairs) THEN << >>
    ELSE << SubSeq(pairs, start + 1, Min(start + size, Len(pairs))) >>
         \o DistChunks(pairs, start + size, size)

\* adj_matrix[r_rows, r_cols] = 1; adj_matrix[r_cols, r_rows] = 1
SetEdges(adj, found) ==
    adj \cup { found[i] : i \in 1..Len(found) }
        \cup { << found[i][2], found[i][1] >> : i \in 1..Len(found) }

(***************************************************************************)
(* scipy.sparse.csgraph.connected_components(adj_matrix, directed=False):  *)
(* nodes are visited in index order, an unlabelled node opens the next     *)
(* label and the traversal gives it to every node reachable from it.       *)
(***************************************************************************)
\* Reachable stopping at the direct neighbours
ReachableDirect(adj, seen) ==
    seen \cup { e[2] : e \in { x \in adj : x[1] \in seen } }

RECURSIVE Reachable(_, _)
\* the nodes connected to a node of the set seen in the undirected graph adj
Reachable(adj, seen) ==
    LET more == seen \cup { e[2] : e \in { x \in adj : x[1] \in seen } }
                     \cup { e[1] : e \in { x \in adj : x[2] \in seen } }
    IN  IF more = seen THEN seen ELSE Reachable(adj, more)

\* labels[idx]: the number of components opened before idx's own
Labels(adj, n) ==
    [idx \in 0..n - 1 |->
        LET first == CHOOSE m \in Reachable(adj, {idx}) : \A o \in Reachable(adj, {idx}) : m <= o
        IN  Cardinality({ v \in 0..first - 1 :
                            \A u \in 0..v - 1 : u \notin Reachable(adj, {v}) })]

n_components(labels) == Cardinality({ labels[i] : i \in DOMAIN labels })

RECURSIVE LabelMembers(_, _, _, _)
\* clusters[label]: sigs[idx] for the indices idx.. of that label, ascending
LabelMembers(sgs, labels, label, idx) ==
    IF idx > Len(sgs) - 1 THEN << >>
    ELSE (IF labels[idx] = label THEN << sgs[idx + 1].sig >> ELSE << >>)
         \o LabelMembers(sgs, labels, label, idx + 1)

\* BuildClusters taking the labels to count from 1
BuildClustersFromOne(sgs, labels) ==
    [l \in 1..n_components(labels) |-> LabelMembers(sgs, labels, l, 0)]

\* clusters = [[] for _ in range(n_components)], filled by label
BuildClusters(sgs, labels) ==
    [l \in 1..n_components(labels) |-> LabelMembers(sgs, labels, l - 1, 0)]


(***************************************************************************)
(* The state.                                                              *)
(***************************************************************************)
VARIABLES
    signatures,         \* data["signatures"] in iteration order: records sig, cards
    threshold,          \* args.threshold, in units of 1e-6
    n_workers,          \* max(1, os.cpu_count())
    pc,                 \* the position of the coordinating process
    worker_context,     \* what init_worker_full stored in every worker
    buckets,            \* buckets[bid]: the rows of each bucket
    tasks,              \* the chunks of the running executor.map call
    next_result,        \* the chunk whose result the coordinator consumes next
    bucket_adj,         \* the bucket adjacency being merged
    cand_pairs_accum,   \* the candidate deck pairs
    adj_matrix,         \* the set of (row, col) elements set to 1
    clusters,           \* the returned cluster list
    dists,              \* distances computed for a pair of decks, by (row, col)
    cards,              \* the argument of compute_deck_signature
    signature,          \* its return value
    fs,                 \* the files: content by path, Missing when there is none
    output_data,        \* main's cluster list
    exit_status,        \* << >> while the command runs, then its exit status
    console,            \* the summary lines main printed
    log,                \* the messages of logger.error
    tournaments,        \* the files under TOURNAMENTS_DIR, by date
    card_db,            \* the enriched cards file: the prints load_card_database returns
    scan_args,          \* the arguments of the last _scan_and_aggregate call
    scan_result,        \* what that call returned: dates, signatures
    scans,              \* the number of _scan_and_aggregate calls made
    refresh_status,     \* << >> or the exit status of refresh_cache
    daily,              \* << >> or the exit status of daily_update
    chunk_sizes,        \* n_buckets, n_workers and n_candidates of a chunking
    chunk_lists         \* its ranges and its distance chunks

scan_vars ==
    << tournaments, card_db, scan_args, scan_result, scans, refresh_status, daily,
       chunk_sizes, chunk_lists >>

main_vars == << fs, output_data, exit_status, console, log, scan_vars >>

vars ==
    << signatures, threshold, n_workers, pc, worker_context, buckets, tasks,
       next_result, bucket_adj, cand_pairs_accum, adj_matrix, clusters,
       dists, cards, signature, main_vars >>

\* --threshold default
DEFAULT_THRESHOLD == 1000000

\* the value of a name nothing was assigned to yet
None == << >>

\* the input cache of the clusterer and the default of --output
CACHE_FILE == "data/cache/daily_exact_stats.json"
OUTPUT == "data/cache/clusters.json"

\* the temporary path being the output path itself
TempIsOutput(output) == output

\* temp_output = args.output + ".tmp"
temp_output(output) == output \o ".tmp"

\* the content of a path that does not exist
Missing == [exists |-> FALSE]

\* data.py: CACHE_FILE, the pickled cache the scan writes
DATA_CACHE_FILE == "data/cache/daily_exact_stats.pkl.gz"

\* data.py: OLD_CACHE_FILE, from the project root the path cluster_decks reads
OLD_CACHE_FILE == CACHE_FILE

\* tempfile.mkstemp(dir=os.path.dirname(CACHE_FILE), suffix='.tmp')
temp_path == "data/cache/tmpfile.tmp"

Paths == {CACHE_FILE, OUTPUT, temp_output(OUTPUT), DATA_CACHE_FILE, temp_path}

\* main has not run: no file, nothing computed, printed or logged
\* no scan, no daily update and no chunking has run
ScanIdle ==
    /\ tournaments = << >>
    /\ card_db = Missing
    /\ scan_args = << >>
    /\ scan_result = << >>
    /\ scans = 0
    /\ refresh_status = << >>
    /\ daily = << >>
    /\ chunk_sizes = << >>
    /\ chunk_lists = << >>

MainIdle ==
    /\ ScanIdle
    /\ fs = [p \in Paths |-> Missing]
    /\ output_data = None
    /\ exit_status = << >>
    /\ console = << >>
    /\ log = << >>

\* a card entry of the cache as the raw item it was read from
RawOf(c) ==
    [kind |-> "dict", has |-> {"name", "set", "number", "count"},
     name |-> c.name, set |-> c.set, number |-> c.number, count |-> c.count,
     type |-> c.type]

\* the deck record the aggregation stores for a card list: keyed by the
\* signature of its cards
DeckRecord(cs) ==
    [sig |-> compute_deck_signature([i \in 1..Len(cs) |-> RawOf(cs[i])]).hash_str,
     cards |-> cs]

\* the sequences of 1..n different deck records over the card lists of pool
Datasets(pool, n) ==
    UNION { { [i \in 1..k |-> DeckRecord(f[i])] :
              f \in { g \in [1..k -> pool] : \A a, b \in 1..k : a # b => g[a] # g[b] } } :
            k \in 1..n }

\* the prints of the clustering runs: Pikachu (A1) and Zacian
ClusterPrints == {3, 7}

InitPipeline(S) ==
    /\ signatures \in S
    /\ n_workers \in 1..MaxWorkers
    /\ pc = "start"
    /\ worker_context = None
    /\ buckets = None
    /\ tasks = << >>
    /\ next_result = 1
    /\ bucket_adj = None
    /\ cand_pairs_accum = << >>
    /\ adj_matrix = {}
    /\ clusters = None
    /\ dists = None
    /\ cards = << >>
    /\ signature = None
    /\ MainIdle

Init ==
    /\ threshold = DEFAULT_THRESHOLD
    /\ InitPipeline(Datasets(DecksOver(ClusterPrints, Cardinality(ClusterPrints), Counts), MaxDecks))

Task(args) == [args |-> args, status |-> "queued", result |-> << >>]

\* executor.map(fn, chunks): every chunk is submitted at once
Submit(chunks) == [i \in 1..Len(chunks) |-> Task(chunks[i])]

\* get_binary_features_and_buckets, norms, ranges, the pool and the first map call
Start ==
    /\ pc = "start"
    /\ worker_context' = WorkerContext(signatures)
    /\ buckets' = Buckets(signatures)
    /\ tasks' = Submit(BucketRanges(Cardinality(DOMAIN buckets'), n_workers))
    /\ next_result' = 1
    /\ bucket_adj' = EmptyAdj(Cardinality(DOMAIN buckets'))
    /\ pc' = "buckets"
    /\ UNCHANGED << signatures, threshold, n_workers, cand_pairs_accum, adj_matrix,
                    clusters, dists, cards, signature, main_vars >>

Running == { i \in 1..Len(tasks) : tasks[i].status = "running" }

\* a free worker process takes the oldest queued chunk
WorkerStart(i) ==
    /\ pc \in {"buckets", "dist"}
    /\ tasks[i].status = "queued"
    /\ \A j \in 1..i - 1 : tasks[j].status # "queued"
    /\ Cardinality(Running) < n_workers
    /\ tasks' = [tasks EXCEPT ![i].status = "running"]
    /\ UNCHANGED << signatures, threshold, n_workers, pc, worker_context, buckets,
                    next_result, bucket_adj, cand_pairs_accum, adj_matrix, clusters,
                    dists, cards, signature, main_vars >>

\* the worker function applied to the chunk
ChunkResult(args) ==
    IF pc = "buckets"
    THEN find_bucket_neighbors_worker(worker_context.masks, args[1], args[2])
    ELSE calculate_dist_worker(worker_context, args, threshold)

\* the worker completes its chunk and hands the result back
WorkerFinish(i) ==
    /\ pc \in {"buckets", "dist"}
    /\ tasks[i].status = "running"
    /\ tasks' = [tasks EXCEPT ![i].status = "done", ![i].result = ChunkResult(tasks[i].args)]
    /\ UNCHANGED << signatures, threshold, n_workers, pc, worker_context, buckets,
                    next_result, bucket_adj, cand_pairs_accum, adj_matrix, clusters,
                    dists, cards, signature, main_vars >>

\* MergeBuckets taking whatever the next chunk holds at the moment, without
\* waiting for its worker
MergeBucketsWithoutWaiting ==
    /\ pc = "buckets"
    /\ next_result <= Len(tasks)
    /\ bucket_adj' = MergeBucketPairs(bucket_adj, tasks[next_result].result)
    /\ next_result' = next_result + 1
    /\ UNCHANGED << signatures, threshold, n_workers, pc, worker_context, buckets, tasks,
                    cand_pairs_accum, adj_matrix, clusters, dists, cards, signature, main_vars >>

\* for sub_res in results: one iteration, taken when the next result in
\* submission order is there
MergeBuckets ==
    /\ pc = "buckets"
    /\ next_result <= Len(tasks)
    /\ tasks[next_result].status = "done"
    /\ bucket_adj' = MergeBucketPairs(bucket_adj, tasks[next_result].result)
    /\ next_result' = next_result + 1
    /\ UNCHANGED << signatures, threshold, n_workers, pc, worker_context, buckets, tasks,
                    cand_pairs_accum, adj_matrix, clusters, dists, cards, signature, main_vars >>

\* the candidate pairs, adj_matrix and, when there are candidates, the second map call
GenerateCandidates ==
    /\ pc = "buckets"
    /\ next_result > Len(tasks)
    /\ cand_pairs_accum' = CandidatePairs(buckets, bucket_adj, bucket_adj.keys)
    /\ adj_matrix' = {}
    /\ tasks' = Submit(DistChunks(cand_pairs_accum', 0, DIST_CHUNK_SIZE))
    /\ next_result' = 1
    /\ pc' = "dist"
    /\ UNCHANGED << signatures, threshold, n_workers, worker_context, buckets, bucket_adj,
                    clusters, dists, cards, signature, main_vars >>

\* MergeDists taking whatever the next chunk holds at the moment
MergeDistsWithoutWaiting ==
    /\ pc = "dist"
    /\ next_result <= Len(tasks)
    /\ adj_matrix' = SetEdges(adj_matrix, tasks[next_result].result)
    /\ next_result' = next_result + 1
    /\ UNCHANGED << signatures, threshold, n_workers, pc, worker_context, buckets, tasks,
                    bucket_adj, cand_pairs_accum, clusters, dists, cards, signature, main_vars >>

\* for r_rows, r_cols in dist_results: one iteration
MergeDists ==
    /\ pc = "dist"
    /\ next_result <= Len(tasks)
    /\ tasks[next_result].status = "done"
    /\ adj_matrix' = SetEdges(adj_matrix, tasks[next_result].result)
    /\ next_result' = next_result + 1
    /\ UNCHANGED << signatures, threshold, n_workers, pc, worker_context, buckets, tasks,
                    bucket_adj, cand_pairs_accum, clusters, dists, cards, signature, main_vars >>

\* the pool is left; connected_components and the cluster lists
ConnectedComponents ==
    /\ pc = "dist"
    /\ next_result > Len(tasks)
    /\ clusters' = BuildClusters(signatures, Labels(adj_matrix, Len(signatures)))
    /\ pc' = "done"
    /\ UNCHANGED << signatures, threshold, n_workers, worker_context, buckets, tasks,
                    next_result, bucket_adj, cand_pairs_accum, adj_matrix, dists, cards,
                    signature, main_vars >>

Next ==
    \/ Start
    \/ \E i \in 1..Len(tasks) : WorkerStart(i)
    \/ \E i \in 1..Len(tasks) : WorkerFinish(i)
    \/ MergeBuckets
    \/ GenerateCandidates
    \/ MergeDists
    \/ ConnectedComponents

Spec == Init /\ [][Next]_vars


(***************************************************************************)
(* The distance as a function of two decks: both decks are the rows 0 and  *)
(* 1 of the feature matrices and calculate_dist_worker's formula is        *)
(* applied to every (row, col).                                            *)
(***************************************************************************)
\* threshold values of the distance evaluations: 0.5 and the default 1.0
Thresholds == {500000, 1000000}

\* the prints of the distance evaluations: both Pikachu prints, Research,
\* Shrine and Zacian
DistPrints == {3, 4, 5, 6, 7}

\* the pairs of different deck records over the card lists of pool
DeckPairs(pool) ==
    { << DeckRecord(a), DeckRecord(b) >> : a, b \in pool } \ { << DeckRecord(a), DeckRecord(a) >> : a \in pool }

InitDist ==
    /\ signatures \in DeckPairs(DecksOver(DistPrints, MaxEntries, Counts))
    /\ threshold \in Thresholds
    /\ n_workers = 1
    /\ pc = "pair"
    /\ worker_context = None
    /\ buckets = None
    /\ tasks = << >>
    /\ next_result = 1
    /\ bucket_adj = None
    /\ cand_pairs_accum = << >>
    /\ adj_matrix = {}
    /\ clusters = None
    /\ dists = None
    /\ cards = << >>
    /\ signature = None
    /\ MainIdle

\* the features of the two decks and the distance of every (row, col)
CalcDist ==
    /\ pc = "pair"
    /\ worker_context' = WorkerContext(signatures)
    /\ dists' = [rc \in (0..1) \X (0..1) |-> Dists(worker_context', rc[1], rc[2])]
    /\ adj_matrix' = SetEdges({}, calculate_dist_worker(worker_context', << << 0, 1 >> >>, threshold))
    /\ pc' = "pair_done"
    /\ UNCHANGED << signatures, threshold, n_workers, buckets, tasks, next_result,
                    bucket_adj, cand_pairs_accum, clusters, cards, signature, main_vars >>

NextDist == CalcDist

SpecDist == InitDist /\ [][NextDist]_vars

(***************************************************************************)
(* The distance definition's per-card loop (calculate_distance of the      *)
(* tests): a count map per deck keyed by (name, type), counts of a         *)
(* repeated key summed.                                                    *)
(***************************************************************************)
CountMap(cs, key) ==
    SumOver([j \in 1..Len(cs) |-> IF CardKey(cs[j]) = key THEN cs[j].count ELSE 0], 1..Len(cs))

KeysOf(cs) == { CardKey(cs[j]) : j \in 1..Len(cs) }

calculate_distance(deckA, deckB) ==
    LET keys == KeysOf(deckA) \cup KeysOf(deckB)
        term == [k \in keys |->
                    LET a == CountMap(deckA, k)
                        b == CountMap(deckB, k)
                        w == WeightOfType(k[2])
                    IN  IF a > 0 /\ b > 0 THEN Abs(a - b) * w
                        ELSE Max(a, b) * 2 * w]
    IN  SumOver(term, keys)

(***************************************************************************)
(* compute_deck_signature as a function of its argument.                   *)
(***************************************************************************)
DictItem(p, n) == RawOf(Entry(p, n))

\* the raw items of the signature computations: both Pikachu prints in one
\* or two copies, Research without a count, a bare energy name, and an item
\* that is neither a string nor a dict
RawItems ==
    { DictItem(p, n) : p \in {3, 4}, n \in Counts }
    \cup { [DictItem(5, 1) EXCEPT !.has = {"name", "set", "number"}] }
    \cup { [DictItem(5, 1) EXCEPT !.kind = "str", !.name = "Fire", !.has = {}] }
    \cup { [DictItem(5, 1) EXCEPT !.kind = "other", !.has = {}] }

InitSig ==
    /\ cards \in UNION { [1..k -> RawItems] : k \in 0..MaxLen }
    /\ signature = None
    /\ pc = "cards"
    /\ signatures = << >>
    /\ threshold = DEFAULT_THRESHOLD
    /\ n_workers = 1
    /\ worker_context = None
    /\ buckets = None
    /\ tasks = << >>
    /\ next_result = 1
    /\ bucket_adj = None
    /\ cand_pairs_accum = << >>
    /\ adj_matrix = {}
    /\ clusters = None
    /\ dists = None
    /\ MainIdle

ComputeSignature ==
    /\ pc = "cards"
    /\ signature' = compute_deck_signature(cards)
    /\ pc' = "signed"
    /\ UNCHANGED << signatures, threshold, n_workers, worker_context, buckets, tasks,
                    next_result, bucket_adj, cand_pairs_accum, adj_matrix, clusters,
                    dists, cards, main_vars >>

NextSig == ComputeSignature

SpecSig == InitSig /\ [][NextSig]_vars

(***************************************************************************)
(* Clustering runs over decks of single copies of five Pokemon prints,     *)
(* two of them prints of Pikachu.                                          *)
(***************************************************************************)
PrunePrints == {1, 2, 3, 4, 7}

InitPrune ==
    /\ threshold = DEFAULT_THRESHOLD
    /\ InitPipeline(Datasets(DecksOver(PrunePrints, Cardinality(PrunePrints), {1}), 2))

SpecPrune == InitPrune /\ [][Next]_vars


(***************************************************************************)
(* Properties.                                                             *)
(***************************************************************************)
Rows == 0..Len(signatures) - 1
SigOf(row) == signatures[row + 1].sig
InputSigs == { signatures[i].sig : i \in 1..Len(signatures) }

\* the places (cluster, position) at which a signature stands in clusters
PlacesOf(s) ==
    { lj \in (1..Len(clusters)) \X (1..Len(signatures)) :
        lj[2] <= Len(clusters[lj[1]]) /\ clusters[lj[1]][lj[2]] = s }

\* C1: when cluster_decks_bucketed_parallel has returned, every input
\* signature stands at exactly one place of the cluster list, and every
\* member of a cluster is an input signature.
C1_ClustersPartitionInput ==
    pc = "done" =>
        /\ \A s \in InputSigs : Cardinality(PlacesOf(s)) = 1
        /\ \A l \in 1..Len(clusters) : \A j \in 1..Len(clusters[l]) :
               clusters[l][j] \in InputSigs

\* a run over three decks that returned a cluster of two and a singleton
C1_Witness ==
    /\ pc = "done"
    /\ Len(signatures) = 3
    /\ Len(clusters) = 2
    /\ \E l \in 1..2 : Len(clusters[l]) = 1

\* the cluster a row's signature was put in
ClusterOf(row) == CHOOSE l \in 1..Len(clusters) : \E j \in 1..Len(clusters[l]) : clusters[l][j] = SigOf(row)

\* a path of accepted edges from row a to row b: a sequence of rows, each
\* joined to the next by an element of adj_matrix
PathOfEdges(a, b) ==
    \E k \in 0..Len(signatures) - 1 :
        \E path \in [0..k -> Rows] :
            /\ path[0] = a
            /\ path[k] = b
            /\ \A m \in 0..k - 1 : << path[m], path[m + 1] >> \in adj_matrix

\* C2: in the returned cluster list two decks stand in the same cluster
\* exactly if a path of accepted edges joins them.
C2_SameClusterIffPath ==
    pc = "done" =>
        \A a, b \in Rows : (ClusterOf(a) = ClusterOf(b)) <=> PathOfEdges(a, b)

\* A-B and B-C accepted, A-C beyond the threshold, all three in one cluster
C2_Witness ==
    /\ pc = "done"
    /\ \E a, b, c \in Rows :
        /\ << a, b >> \in adj_matrix
        /\ << b, c >> \in adj_matrix
        /\ a # c
        /\ ~MatchMask(worker_context, Min(a, c), Max(a, c), threshold)
        /\ ClusterOf(a) = ClusterOf(b)
        /\ ClusterOf(b) = ClusterOf(c)

\* the edges an evaluation of the same distance on every pair of decks gives
ExhaustiveEdges ==
    { rc \in Rows \X Rows :
        /\ rc[1] # rc[2]
        /\ MatchMask(worker_context, Min(rc[1], rc[2]), Max(rc[1], rc[2]), threshold) }

\* C3: at the default threshold the edges accepted with bucketing are the
\* edges of the exhaustive evaluation of all pairs.
C3_BucketedEdgesAreExhaustive ==
    (pc = "done" /\ threshold = DEFAULT_THRESHOLD) => adj_matrix = ExhaustiveEdges

DeckA == signatures[1].cards
DeckB == signatures[2].cards

\* the decision of the per-card loop
NaiveAccepts(deckA, deckB, thr) == calculate_distance(deckA, deckB) <= thr + EPSILON

\* C4: the vectorized evaluator accepts a pair exactly if the per-card loop
\* over the summed count maps does.
C4_VectorizedDecisionIsNaive ==
    pc = "pair_done" =>
        ((<< 0, 1 >> \in adj_matrix) <=> NaiveAccepts(DeckA, DeckB, threshold))

\* no key occurs in two entries of the card list
DistinctKeys(cs) == \A i, j \in 1..Len(cs) : i # j => CardKey(cs[i]) # CardKey(cs[j])

\* the card list holds exactly the given (name, count) entries
Holds(cs, nc) == { << cs[j].name, cs[j].count >> : j \in 1..Len(cs) } = nc /\ Len(cs) = Cardinality(nc)

\* the worked examples: the deck pairs with the distance each must give
WorkedExamples ==
    { << {<< "Pikachu", 2 >>}, {<< "Pikachu", 2 >>}, 0 >>,
      << {<< "Pikachu", 2 >>}, {<< "Pikachu", 1 >>}, 500000 >>,
      << {<< "Pikachu", 2 >>, << "Zacian", 1 >>}, {<< "Pikachu", 1 >>, << "Zacian", 2 >>}, 1000000 >>,
      << {<< "Pikachu", 1 >>}, {<< "Zacian", 1 >>}, 2000000 >>,
      << {<< "Research", 2 >>}, {<< "Research", 1 >>, << "Shrine", 1 >>}, 375000 >> }

\* C5: for two decks of pairwise distinct card keys and counts of 1 or 2
\* the computed distance is the sum over the keys of |countA - countB| * w
\* (key in both decks) or max(countA, countB) * 2w (key in one), with
\* w = 0.5 for Pokemon and 0.125 otherwise; the five worked examples give
\* 0.0, 0.5, 1.0, 2.0 and 0.375.
C5_DistanceFormula ==
    pc = "pair_done" =>
        /\ (DistinctKeys(DeckA) /\ DistinctKeys(DeckB)) =>
               /\ dists[<< 0, 1 >>] = calculate_distance(DeckA, DeckB)
               /\ dists[<< 0, 0 >>] = calculate_distance(DeckA, DeckA)
        /\ \A ex \in WorkedExamples :
               (Holds(DeckA, ex[1]) /\ Holds(DeckB, ex[2])) => dists[<< 0, 1 >>] = ex[3]

\* the last worked example, evaluated: Research x2 against Research x1, Shrine x1
C5_Witness ==
    /\ pc = "pair_done"
    /\ Holds(DeckA, {<< "Research", 2 >>})
    /\ Holds(DeckB, {<< "Research", 1 >>, << "Shrine", 1 >>})
    /\ dists[<< 0, 1 >>] = 375000

\* C6: the distance computed for (A, B) is the distance computed for (B, A).
C6_DistanceSymmetric ==
    pc = "pair_done" => dists[<< 0, 1 >>] = dists[<< 1, 0 >>]

\* a pair whose two correction terms differ, one deck repeating a key
C6_Witness ==
    /\ pc = "pair_done"
    /\ Corr1(worker_context, 0, 1) # Corr2(worker_context, 0, 1)
    /\ ~DistinctKeys(DeckA)
    /\ dists[<< 0, 1 >>] > 0

\* both decks give every card key the same summed count
IdenticalCountMaps(deckA, deckB) ==
    \A k \in KeysOf(deckA) \cup KeysOf(deckB) : CountMap(deckA, k) = CountMap(deckB, k)

CardsAt(row) == signatures[row + 1].cards

\* C7: the distance of two decks is 0 exactly if their count maps are
\* identical; the distance of every deck to itself is 0.
C7_ZeroIffIdentical ==
    pc = "pair_done" =>
        \A rc \in (0..1) \X (0..1) :
            (dists[rc] = 0) <=> IdenticalCountMaps(CardsAt(rc[1]), CardsAt(rc[2]))

\* C8: no computed distance is negative.
C8_DistanceNonNegative ==
    pc = "pair_done" => \A rc \in (0..1) \X (0..1) : dists[rc] >= 0

\* the orderings of a list
Permutations(l) ==
    { [i \in 1..Len(l) |-> l[f[i]]] :
        f \in { g \in [1..Len(l) -> 1..Len(l)] : \A a, b \in 1..Len(l) : a # b => g[a] # g[b] } }

ValidEntries(l) == \A i \in 1..Len(l) : l[i].kind \in {"str", "dict"}

\* C9: every permutation of a list of valid entries is given the signature
\* and the normalized list of the list itself.
C9_SignatureOfPermutation ==
    (pc = "signed" /\ ValidEntries(cards)) =>
        \A perm \in Permutations(cards) : compute_deck_signature(perm) = signature

NameChoices == {"Pikachu", "Mew"}
TypeChoices == {"Pokemon", "Unknown"}

\* the items that agree with item on everything but the name (one of N or
\* its own) and the type (one of T or its own); only a dict item has them
VariantsOf(item, N, T) ==
    IF item.kind = "dict"
    THEN { [item EXCEPT !.name = n, !.type = t] :
             n \in N \cup {item.name}, t \in T \cup {item.type} }
    ELSE {item}

RECURSIVE Relabelled(_, _, _)
\* the lists made of such variants of the items of l, place by place
Relabelled(l, N, T) ==
    IF l = << >> THEN { << >> }
    ELSE { << v >> \o rest : v \in VariantsOf(Head(l), N, T), rest \in Relabelled(Tail(l), N, T) }

\* C10 as stated: lists that agree on (set, number, count) and differ in
\* names or types are given the same signature.
C10_SignatureIgnoresNameAndType ==
    pc = "signed" =>
        \A other \in Relabelled(cards, NameChoices, TypeChoices) :
            compute_deck_signature(other).hash_str = signature.hash_str

\* C10 amended: lists that agree on (name, set, number, count) and differ
\* in types are given the same signature and the same normalized list.
C10_SignatureIgnoresType ==
    pc = "signed" =>
        \A other \in Relabelled(cards, {}, TypeChoices) :
            compute_deck_signature(other) = signature

\* a signed list with a dict item whose type can be changed
C10_Witness ==
    /\ pc = "signed"
    /\ \E other \in Relabelled(cards, {}, TypeChoices) :
        /\ other # cards
        /\ compute_deck_signature(other) = signature


(***************************************************************************)
(* Card identity in the clusterer: a deck, the same deck with the name of  *)
(* one entry changed, and a second deck are the rows 0, 1 and 2 of the     *)
(* feature matrices.                                                       *)
(***************************************************************************)
\* the prints of the identity runs: both Pikachu prints and Zacian
IdentPrints == {3, 4, 7}

\* the names an entry is renamed to
IdentNames == {"Mew", "Pikachu"}

Rename(cs, i, name) == [cs EXCEPT ![i].name = name]

IdentTriples ==
    LET pool == DecksOver(IdentPrints, 2, Counts)
    IN  UNION { { << DeckRecord(a), DeckRecord(Rename(a, i, nm)), DeckRecord(b) >> :
                    i \in { j \in 1..Len(a) : a[j].name # nm } } :
                a \in pool, b \in pool, nm \in IdentNames }

InitIdent ==
    /\ signatures \in IdentTriples
    /\ threshold = DEFAULT_THRESHOLD
    /\ n_workers = 1
    /\ pc = "ident"
    /\ worker_context = None
    /\ buckets = None
    /\ tasks = << >>
    /\ next_result = 1
    /\ bucket_adj = None
    /\ cand_pairs_accum = << >>
    /\ adj_matrix = {}
    /\ clusters = None
    /\ dists = None
    /\ cards = << >>
    /\ signature = None
    /\ MainIdle

\* the features and buckets of the three decks and the distance of every (row, col)
CalcIdent ==
    /\ pc = "ident"
    /\ worker_context' = WorkerContext(signatures)
    /\ buckets' = Buckets(signatures)
    /\ dists' = [rc \in Rows \X Rows |-> Dists(worker_context', rc[1], rc[2])]
    /\ pc' = "ident_done"
    /\ UNCHANGED << signatures, threshold, n_workers, tasks, next_result, bucket_adj,
                    cand_pairs_accum, adj_matrix, clusters, cards, signature, main_vars >>

NextIdent == CalcIdent

SpecIdent == InitIdent /\ [][NextIdent]_vars

\* the bucket a row was placed in
BucketOfRow(row) ==
    CHOOSE bid \in DOMAIN buckets : \E k \in 1..Len(buckets[bid]) : buckets[bid][k] = row

\* the copies of every (set, number) of a card list
PrintCounts(cs) == { << cs[j].set, cs[j].number, cs[j].count >> : j \in 1..Len(cs) }

\* C11: the clusterer identifies a card by (set, number) only: renaming an
\* entry (row 1 is row 0 with one name changed) changes neither a distance
\* of the deck nor its bucket, and decks that hold different (set, number)
\* prints, also of one name, are not at distance 0.
C11_IdentityIsSetAndNumber ==
    pc = "ident_done" =>
        /\ \A c \in Rows : dists[<< 0, c >>] = dists[<< 1, c >>] \/ c \in {0, 1}
        /\ dists[<< 0, 1 >>] = 0
        /\ BucketOfRow(0) = BucketOfRow(1)
        /\ \A r, c \in Rows :
              PrintCounts(CardsAt(r)) # PrintCounts(CardsAt(c)) /\ r # 1 /\ c # 1
                  => dists[<< r, c >>] # 0


(***************************************************************************)
(* main: the cache is read, the decks are clustered, every cluster gets    *)
(* its representative, the clusters are ranked, written to the temporary   *)
(* path, renamed into place and summarised on the console.                 *)
(***************************************************************************)
\* stats.players of the deck records of a cache
Players == {1, 2}

\* the console summary lists output_data[:10]
TOP_N == 10

\* the exit status of a process that returned from main, of one ended by
\* an uncaught exception, and of one that was killed
EXIT_OK == 0
EXIT_EXCEPTION == 1
EXIT_KILLED == 137

\* a deck record of the cache with its name and stats.players
MainRecord(cs, players) ==
    [sig |-> DeckRecord(cs).sig, cards |-> cs, name |-> cs[1].name, players |-> players]

RECURSIVE InsertDescBeforeEquals(_, _, _)
\* InsertDesc for a sort that puts an element before its equals
InsertDescBeforeEquals(sorted, x, k) ==
    IF sorted = << >> THEN << x >>
    ELSE IF k[Head(sorted)] > k[x]
         THEN << Head(sorted) >> \o InsertDescBeforeEquals(Tail(sorted), x, k)
         ELSE << x >> \o sorted

RECURSIVE InsertDesc(_, _, _)
\* x is put behind every element whose key is not smaller: the place a
\* stable sort with reverse=True gives the last element of the list
InsertDesc(sorted, x, k) ==
    IF sorted = << >> THEN << x >>
    ELSE IF k[Head(sorted)] >= k[x]
         THEN << Head(sorted) >> \o InsertDesc(Tail(sorted), x, k)
         ELSE << x >> \o sorted

RECURSIVE SortDesc(_, _, _)
\* list.sort(key=k, reverse=True)
SortDesc(done, rest, k) ==
    IF rest = << >> THEN done
    ELSE SortDesc(InsertDesc(done, Head(rest), k), Tail(rest), k)

SigsOf(sgs) == { sgs[i].sig : i \in 1..Len(sgs) }
RecordOf(sgs, s) == sgs[CHOOSE i \in 1..Len(sgs) : sgs[i].sig = s]

sig_stats(sgs) == [s \in SigsOf(sgs) |-> RecordOf(sgs, s).players]
sig_names(sgs) == [s \in SigsOf(sgs) |-> RecordOf(sgs, s).name]

\* cluster_sigs.sort(key=lambda s: sig_stats.get(s, 0), reverse=True)
SortedCluster(cluster_sigs, sgs) == SortDesc(<< >>, cluster_sigs, sig_stats(sgs))

\* the record of cluster i, whose signatures are sorted already
ClusterRecord(i, cluster_sigs, sgs) ==
    [id |-> i,
     representative_name |-> sig_names(sgs)[cluster_sigs[1]],
     representative_sig |-> cluster_sigs[1],
     signatures |-> cluster_sigs,
     count |-> Len(cluster_sigs)]

\* the number of signatures of a cluster
cluster_count(c, sgs) == Len(c.signatures)

get_cluster_players(c, sgs) ==
    SumOver([j \in 1..Len(c.signatures) |-> sig_stats(sgs)[c.signatures[j]]],
            1..Len(c.signatures))

\* output_data before and after output_data.sort(key=get_cluster_players, reverse=True)
Representatives(cl, sgs) ==
    [i \in 1..Len(cl) |-> ClusterRecord(i - 1, cl[i], sgs)]

Ranked(out, sgs) ==
    SortDesc(<< >>, out,
             [c \in { out[i] : i \in 1..Len(out) } |-> get_cluster_players(c, sgs)])

\* the lines printed for output_data[:10]
TopClusters(out, sgs) ==
    [i \in 1..Min(TOP_N, Len(out)) |->
        [rank |-> i,
         representative_name |-> out[i].representative_name,
         representative_sig |-> out[i].representative_sig,
         count |-> out[i].count,
         total_players |-> get_cluster_players(out[i], sgs)]]

\* a file being written by json.dump: the clusters written so far, and
\* whether the list was closed
FileOf(items, closed) == [items |-> items, closed |-> closed]

\* the cluster list a previous run left at the output path
PreviousOutput ==
    LET previous == DeckRecord(<< Entry(2, 2) >>).sig
    IN  FileOf(<< [id |-> 0, representative_name |-> "Mew", representative_sig |-> previous,
                   signatures |-> << previous >>, count |-> 1] >>, TRUE)

\* os.replace(src, dst)
os_replace(files, src, dst) ==
    IF src = dst THEN files
    ELSE [files EXCEPT ![dst] = files[src], ![src] = Missing]


\* the decks of main's runs: one or two copies of Pikachu (A1), or one
\* copy of Zacian
MainDecks == DecksOver({3}, 1, Counts) \cup DecksOver({7}, 1, {1})

\* the signatures of a cache: 1..n different decks over pool, each with its
\* number of players
MainDatasets(pool, n) ==
    UNION { { [i \in 1..k |-> MainRecord(f[i], pl[i])] :
              f \in { g \in [1..k -> pool] : \A a, b \in 1..k : a # b => g[a] # g[b] },
              pl \in [1..k -> Players] } :
            k \in 1..n }

\* the cache file: absent, without signatures, or with a dataset
CacheFiles(S) == {Missing} \cup { [signatures |-> ds] : ds \in S \cup { << >> } }

InitMainOver(S) ==
    /\ fs \in { [p \in Paths |->
                    IF p = CACHE_FILE THEN c ELSE IF p = OUTPUT THEN o ELSE Missing] :
                c \in CacheFiles(S), o \in {Missing, PreviousOutput} }
    /\ ScanIdle
    /\ output_data = None
    /\ exit_status = << >>
    /\ console = << >>
    /\ log = << >>
    /\ signatures = << >>
    /\ threshold = DEFAULT_THRESHOLD
    /\ n_workers \in 1..MaxWorkers
    /\ pc = "main"
    /\ worker_context = None
    /\ buckets = None
    /\ tasks = << >>
    /\ next_result = 1
    /\ bucket_adj = None
    /\ cand_pairs_accum = << >>
    /\ adj_matrix = {}
    /\ clusters = None
    /\ dists = None
    /\ cards = << >>
    /\ signature = None

InitMain == InitMainOver(MainDatasets(MainDecks, MaxDecks))

pipeline_vars ==
    << signatures, threshold, n_workers, worker_context, buckets, tasks, next_result,
       bucket_adj, cand_pairs_accum, adj_matrix, clusters, dists, cards, signature,
       scan_vars >>

\* CacheMissing leaving an empty cluster list at the output path
CacheMissingWritesEmpty ==
    /\ pc = "main"
    /\ fs[CACHE_FILE] = Missing
    /\ log' = Append(log, "Cache file not found")
    /\ fs' = [fs EXCEPT ![OUTPUT] = FileOf(<< >>, TRUE)]
    /\ exit_status' = << EXIT_OK >>
    /\ pc' = "exited"
    /\ UNCHANGED << pipeline_vars, output_data, console >>

\* if not os.path.exists(CACHE_FILE): logger.error(...); return
CacheMissing ==
    /\ pc = "main"
    /\ fs[CACHE_FILE] = Missing
    /\ log' = Append(log, "Cache file not found")
    /\ exit_status' = << EXIT_OK >>
    /\ pc' = "exited"
    /\ UNCHANGED << pipeline_vars, fs, output_data, console >>

\* if not signatures: logger.error(...); return
NoSignatures ==
    /\ pc = "main"
    /\ fs[CACHE_FILE] # Missing
    /\ fs[CACHE_FILE].signatures = << >>
    /\ log' = Append(log, "No signatures found in cache.")
    /\ exit_status' = << EXIT_OK >>
    /\ pc' = "exited"
    /\ UNCHANGED << pipeline_vars, fs, output_data, console >>

\* signatures = data.get("signatures", {}) and the call of the clusterer
LoadSignatures ==
    /\ pc = "main"
    /\ fs[CACHE_FILE] # Missing
    /\ fs[CACHE_FILE].signatures # << >>
    /\ signatures' = fs[CACHE_FILE].signatures
    /\ pc' = "start"
    /\ UNCHANGED << threshold, n_workers, worker_context, buckets, tasks, next_result,
                    bucket_adj, cand_pairs_accum, adj_matrix, clusters, dists, cards,
                    signature, main_vars >>

\* the worker function raises, or the worker process dies, on chunk i
WorkerFail(i) ==
    /\ pc \in {"buckets", "dist"}
    /\ tasks[i].status = "running"
    /\ tasks' = [tasks EXCEPT ![i].status = "failed"]
    /\ UNCHANGED << signatures, threshold, n_workers, pc, worker_context, buckets,
                    next_result, bucket_adj, cand_pairs_accum, adj_matrix, clusters,
                    dists, cards, signature, main_vars >>

\* the failed chunk is skipped and the results that follow are merged
AbortSwallowed ==
    /\ pc \in {"buckets", "dist"}
    /\ next_result <= Len(tasks)
    /\ tasks[next_result].status = "failed"
    /\ next_result' = next_result + 1
    /\ UNCHANGED << signatures, threshold, n_workers, pc, worker_context, buckets, tasks,
                    bucket_adj, cand_pairs_accum, adj_matrix, clusters, dists, cards,
                    signature, main_vars >>

\* the iteration over the results of executor.map raises the exception of
\* the failed chunk; nothing catches it in cluster_decks_bucketed_parallel
\* or in main
Abort ==
    /\ pc \in {"buckets", "dist"}
    /\ next_result <= Len(tasks)
    /\ tasks[next_result].status = "failed"
    /\ exit_status' = << EXIT_EXCEPTION >>
    /\ pc' = "exited"
    /\ UNCHANGED << pipeline_vars, fs, output_data, console, log >>

\* the representatives and the ranking; cluster_sigs.sort sorts the lists
\* of clusters in place
BuildOutput ==
    /\ pc = "done"
    /\ clusters' = [i \in 1..Len(clusters) |-> SortedCluster(clusters[i], signatures)]
    /\ output_data' = Ranked(Representatives(clusters', signatures), signatures)
    /\ pc' = "ranked"
    /\ UNCHANGED << signatures, threshold, n_workers, worker_context, buckets, tasks,
                    next_result, bucket_adj, cand_pairs_accum, adj_matrix, dists, cards,
                    signature, fs, exit_status, console, log, scan_vars >>

\* with open(temp_output, "w") as f: the file is created or truncated
OpenTmp ==
    /\ pc = "ranked"
    /\ fs' = [fs EXCEPT ![temp_output(OUTPUT)] = FileOf(<< >>, FALSE)]
    /\ pc' = "writing"
    /\ UNCHANGED << pipeline_vars, output_data, exit_status, console, log >>

\* json.dump writes the next cluster
WriteItem ==
    /\ pc = "writing"
    /\ Len(fs[temp_output(OUTPUT)].items) < Len(output_data)
    /\ fs' = [fs EXCEPT ![temp_output(OUTPUT)] =
                FileOf(Append(@.items, output_data[Len(@.items) + 1]), FALSE)]
    /\ UNCHANGED << pipeline_vars, pc, output_data, exit_status, console, log >>

\* json.dump closes the list and the file is closed
CloseTmp ==
    /\ pc = "writing"
    /\ Len(fs[temp_output(OUTPUT)].items) = Len(output_data)
    /\ fs' = [fs EXCEPT ![temp_output(OUTPUT)] = FileOf(@.items, TRUE)]
    /\ pc' = "written"
    /\ UNCHANGED << pipeline_vars, output_data, exit_status, console, log >>

\* os.replace(temp_output, args.output)
Replace ==
    /\ pc = "written"
    /\ fs' = os_replace(fs, temp_output(OUTPUT), OUTPUT)
    /\ pc' = "replaced"
    /\ UNCHANGED << pipeline_vars, output_data, exit_status, console, log >>

\* print("Top Clusters:") and the lines of output_data[:10]; main returns
PrintSummary ==
    /\ pc = "replaced"
    /\ console' = TopClusters(output_data, signatures)
    /\ exit_status' = << EXIT_OK >>
    /\ pc' = "exited"
    /\ UNCHANGED << pipeline_vars, fs, output_data, log >>

\* main is killed between two steps of the write
Crash ==
    /\ pc \in {"ranked", "writing", "written", "replaced"}
    /\ exit_status' = << EXIT_KILLED >>
    /\ pc' = "crashed"
    /\ UNCHANGED << pipeline_vars, fs, output_data, console, log >>

NextMain ==
    \/ CacheMissing
    \/ NoSignatures
    \/ LoadSignatures
    \/ Start
    \/ \E i \in 1..Len(tasks) : WorkerStart(i)
    \/ \E i \in 1..Len(tasks) : WorkerFinish(i)
    \/ \E i \in 1..Len(tasks) : WorkerFail(i)
    \/ Abort
    \/ MergeBuckets
    \/ GenerateCandidates
    \/ MergeDists
    \/ ConnectedComponents
    \/ BuildOutput
    \/ OpenTmp
    \/ WriteItem
    \/ CloseTmp
    \/ Replace
    \/ PrintSummary
    \/ Crash

SpecMain == InitMain /\ [][NextMain]_vars

\* what a step of a map call changes: its chunks, the result consumed next,
\* the position of the coordinating process
map_vars == << tasks, next_result, pc >>

\* a worker process takes, completes or fails a chunk
WorkerStep ==
    \E i \in 1..Len(tasks) : WorkerStart(i) \/ WorkerFinish(i) \/ WorkerFail(i)

\* the worker processes keep running, and the coordinating process keeps
\* consuming the results of the map call
SpecMainFair ==
    /\ SpecMain
    /\ WF_map_vars(WorkerStep)
    /\ WF_map_vars(MergeBuckets)
    /\ WF_map_vars(MergeDists)
    /\ WF_map_vars(Abort)


(***************************************************************************)
(* Properties of main.                                                     *)
(***************************************************************************)
\* the position of a signature in the input order, and its record's fields
InputPos(s) == CHOOSE i \in 1..Len(signatures) : signatures[i].sig = s
PlayersOf(s) == signatures[InputPos(s)].players
NameOf(s) == signatures[InputPos(s)].name

MembersOf(c) == { c.signatures[j] : j \in 1..Len(c.signatures) }

\* the members of a cluster with the most players
TopMembers(c) == { s \in MembersOf(c) : \A t \in MembersOf(c) : PlayersOf(s) >= PlayersOf(t) }

\* C12: in every cluster of main's list, representative_sig is a member
\* with the maximum stats.players of the cluster, the first of them in the
\* input signature order, and representative_name is that deck's name.
C12_RepresentativeIsFirstOfMostPlayed ==
    output_data # None =>
        \A k \in 1..Len(output_data) :
            LET c == output_data[k]
            IN  /\ c.representative_sig \in TopMembers(c)
                /\ \A t \in TopMembers(c) : InputPos(c.representative_sig) <= InputPos(t)
                /\ c.representative_name = NameOf(c.representative_sig)

\* main has written a cluster in which two members tie for the most players
C12_Witness ==
    /\ pc = "exited"
    /\ output_data # None
    /\ fs[OUTPUT] = FileOf(output_data, TRUE)
    /\ \E k \in 1..Len(output_data) : Cardinality(TopMembers(output_data[k])) >= 2


\* the sum of stats.players over the member signatures of a cluster
TotalPlayers(c) ==
    SumOver([j \in 1..Len(c.signatures) |-> PlayersOf(c.signatures[j])], 1..Len(c.signatures))

\* C13: the ids of main's cluster list are 0..n-1 in the order of the
\* ranking: the cluster at position k (counting from 0) has id k.
C13_IdsFollowRanking ==
    output_data # None =>
        \A k \in 1..Len(output_data) : output_data[k].id = k - 1

(***************************************************************************)
(* Runs of main over more clusters than the console summary lists: decks   *)
(* of two copies of every print of a set of Pokemon, any two of them at    *)
(* distance 2.0 or more, so every deck is a cluster of its own.            *)
(***************************************************************************)
\* Eevee, Mew, Pikachu (A1) and Zacian
TopPrints == {1, 2, 3, 7}

RECURSIVE SeqOfSet(_)
\* the card lists of S in an order
SeqOfSet(S) ==
    IF S = {} THEN << >>
    ELSE LET x == CHOOSE y \in S : TRUE IN << x >> \o SeqOfSet(S \ {x})

\* TOP_N + 1 decks, at most two of them with two players
TopDatasets ==
    LET decks == SubSeq(SeqOfSet(DecksOver(TopPrints, Cardinality(TopPrints), {2})),
                        1, TOP_N + 1)
    IN  { [i \in 1..Len(decks) |-> MainRecord(decks[i], pl[i])] :
          pl \in { q \in [1..Len(decks) -> Players] :
                     Cardinality({ i \in 1..Len(decks) : q[i] = 2 }) <= 2 } }

\* one worker process and no previous output
InitTop ==
    /\ InitMainOver(TopDatasets)
    /\ n_workers = 1
    /\ fs[OUTPUT] = Missing

SpecTop == InitTop /\ [][NextMain]_vars

C15_OutputReplacedAtomically ==
    [][ /\ \/ fs'[OUTPUT] = fs[OUTPUT]
           \/ output_data # None /\ fs'[OUTPUT] = FileOf(output_data, TRUE)
        /\ pc' = "crashed" => fs' = fs ]_vars

\* main crashed while the temporary file held a part of the new list, and
\* the previous output is in place
C15_Witness ==
    /\ pc = "crashed"
    /\ fs[temp_output(OUTPUT)] # Missing
    /\ ~ fs[temp_output(OUTPUT)].closed
    /\ Len(fs[temp_output(OUTPUT)].items) \in 1..Len(output_data) - 1
    /\ fs[OUTPUT] = PreviousOutput

\* a chunk of the running map call failed in its worker
ChunkFailed == \E i \in 1..Len(tasks) : tasks[i].status = "failed"

\* C16: once a bucket-adjacency or distance chunk has failed in a worker,
\* no cluster list is computed, no file is changed, and the run ends with
\* the exception reaching main: it is aborted with a failure status.
C16_WorkerFailureAbortsRun ==
    /\ [](IF ChunkFailed
          THEN /\ clusters = None
               /\ output_data = None
               /\ fs[temp_output(OUTPUT)] = Missing
               /\ pc \in {"buckets", "dist", "exited"}
               /\ exit_status = IF pc = "exited" THEN << EXIT_EXCEPTION >> ELSE << >>
          ELSE TRUE)
    /\ [][ChunkFailed => fs' = fs]_fs
    /\ (ChunkFailed ~> (pc = "exited" /\ exit_status = << EXIT_EXCEPTION >>))

\* the run was aborted by a failed chunk after another chunk of the same
\* map call had completed, with the previous output in place
C16_Witness ==
    /\ pc = "exited"
    /\ exit_status = << EXIT_EXCEPTION >>
    /\ ChunkFailed
    /\ \E j \in 1..Len(tasks) : tasks[j].status = "done"
    /\ fs[OUTPUT] = PreviousOutput


\* the cache file is missing or holds no signatures
NoInput ==
    IF fs[CACHE_FILE] = Missing THEN TRUE ELSE fs[CACHE_FILE].signatures = << >>

\* C17: the command ends with a failure exit status whenever the cache
\* file is missing or holds no deck records.
C17_FailureStatusWithoutInput ==
    pc = "exited" /\ NoInput => exit_status # << EXIT_OK >>

\* C18: when the cache file is missing or holds no signatures, main logs
\* the error and creates or changes neither the output file nor its
\* temporary file.
C18_NothingWrittenWithoutInput ==
    /\ [](IF NoInput
          THEN /\ fs[temp_output(OUTPUT)] = Missing
               /\ fs[OUTPUT] \in {Missing, PreviousOutput}
               /\ output_data = None
               /\ pc = "exited" => Len(log) = 1
          ELSE TRUE)
    /\ [][NoInput => fs' = fs]_fs

\* main ended on a missing cache or on one without signatures, the
\* error logged and the previous output in place
C18_Witness ==
    /\ pc = "exited"
    /\ NoInput
    /\ log # << >>
    /\ fs[OUTPUT] = PreviousOutput


(***************************************************************************)
(* Clustering runs under two values of --threshold, the default 1.0 and    *)
(* 3.0, over decks of single copies of Eevee, Mew and Pikachu (A1): no     *)
(* deck repeats a (name, type) key.                                        *)
(***************************************************************************)
WideThresholds == {DEFAULT_THRESHOLD, 3000000}

WidePrints == {1, 2, 3}

InitWide ==
    /\ threshold \in WideThresholds
    /\ InitPipeline(Datasets(DecksOver(WidePrints, Cardinality(WidePrints), {1}), 2))

SpecWide == InitWide /\ [][Next]_vars

\* the Pokemon-identity set of a card list, and the toggles between two
PokemonIdentity(cs) == { CardKey(cs[j]) : j \in { k \in 1..Len(cs) : cs[k].type = "Pokemon" } }

Toggles(csA, csB) ==
    Cardinality((PokemonIdentity(csA) \ PokemonIdentity(csB))
                \cup (PokemonIdentity(csB) \ PokemonIdentity(csA)))

\* C19: under every accepted threshold, two decks whose Pokemon-identity
\* sets differ by 3 or more toggles are at a distance strictly greater
\* than the threshold and are not accepted as an edge by the distance test.
C19_PrunedPairsBeyondThreshold ==
    pc = "done" =>
        \A r, c \in Rows :
            Toggles(CardsAt(r), CardsAt(c)) >= 3 =>
                /\ Dists(worker_context, r, c) > threshold
                /\ ~ MatchMask(worker_context, r, c, threshold)


\* the edges, clusters and cluster list of a run in which one worker
\* evaluates all buckets as one chunk and all candidate pairs as one chunk
OneChunkAdj ==
    LET n == Cardinality(DOMAIN Buckets(signatures))
    IN  MergeBucketPairs(EmptyAdj(n),
                         find_bucket_neighbors_worker(WorkerContext(signatures).masks, 0, n))

OneChunkEdges ==
    SetEdges({}, calculate_dist_worker(
                     WorkerContext(signatures),
                     CandidatePairs(Buckets(signatures), OneChunkAdj, OneChunkAdj.keys),
                     threshold))

OneChunkClusters == BuildClusters(signatures, Labels(OneChunkEdges, Len(signatures)))

OneChunkOutput ==
    Ranked(Representatives([i \in 1..Len(OneChunkClusters) |->
                               SortedCluster(OneChunkClusters[i], signatures)],
                           signatures),
           signatures)

\* C20: the accepted edges, the clusters and the written cluster list of a
\* run are those of the input and the threshold alone, whatever the order
\* in which the workers took and completed the chunks: they are the ones
\* of the run of a single worker over a single chunk.
C20_ResultIndependentOfScheduling ==
    /\ pc = "dist" /\ next_result > Len(tasks) => adj_matrix = OneChunkEdges
    /\ pc = "done" => adj_matrix = OneChunkEdges /\ clusters = OneChunkClusters
    /\ pc \in {"ranked", "writing", "written", "replaced"} => output_data = OneChunkOutput
    /\ pc \in {"replaced", "exited"} /\ output_data # None =>
          fs[OUTPUT] = FileOf(OneChunkOutput, TRUE)

\* the second bucket chunk completed, with its pairs, while the first was
\* still running
C20_Witness ==
    /\ pc = "buckets"
    /\ Len(tasks) >= 2
    /\ tasks[1].status = "running"
    /\ tasks[2].status = "done"
    /\ tasks[2].result # << >>


\* a step of the coordinating process that merges the next chunk result
MergeStep == pc' = pc /\ pc \in {"buckets", "dist"} /\ next_result' # next_result

\* C21: in both pool phases a merge step happens only after every chunk of
\* the phase has completed in the workers.
C21_MergeAfterAllChunks ==
    [][MergeStep => \A i \in 1..Len(tasks) : tasks[i].status = "done"]_vars

\* C21, as the code has it: a merge step takes the result of the next
\* chunk in submission order, and only once that chunk has completed;
\* chunks behind it may be queued or running.
C21_MergeAfterOwnChunk ==
    [][MergeStep =>
          /\ next_result' = next_result + 1
          /\ tasks[next_result].status = "done"
          /\ tasks' = tasks]_vars

\* the result of the first chunk was merged while the second chunk is
\* still running in its worker
C21_Witness ==
    /\ pc = "buckets"
    /\ next_result = 2
    /\ Len(tasks) >= 2
    /\ tasks[2].status = "running"
    /\ bucket_adj.keys # << >>

\* the items of a raw list that are strings or structured records
WithoutOthers(l) == SelectSeq(l, LAMBDA c : c.kind \in {"str", "dict"})

\* C23: compute_deck_signature gives a result for every list, also one with
\* entries that are neither string nor structured record, and the signature
\* and the normalized list are those of the list with these entries removed.
C23_OtherEntriesSkipped ==
    pc = "signed" =>
        /\ signature.hash_str = compute_deck_signature(WithoutOthers(cards)).hash_str
        /\ signature.normalized_items
               = compute_deck_signature(WithoutOthers(cards)).normalized_items
        /\ Len(signature.normalized_items) = Len(WithoutOthers(cards))

\* a list with an entry of another kind between two cards was signed
C23_Witness ==
    /\ pc = "signed"
    /\ Len(cards) = 3
    /\ cards[1].kind = "dict"
    /\ cards[2].kind = "other"
    /\ cards[3].kind = "str"
    /\ Len(signature.normalized_items) = 2

(***************************************************************************)
(* The match test of calculate_dist_worker at thresholds on and off the    *)
(* grid of the weights.                                                    *)
(***************************************************************************)
\* --threshold values: the default, one weight step below it, and one that
\* lies EPSILON below the default
EdgeThresholds == {DEFAULT_THRESHOLD, DEFAULT_THRESHOLD - W_OTHER, DEFAULT_THRESHOLD - EPSILON}

\* the prints of the match tests: Pikachu, Research and Zacian
EdgePrints == {3, 5, 7}

InitEdge ==
    /\ signatures \in DeckPairs(DecksOver(EdgePrints, MaxEntries, Counts))
    /\ threshold \in EdgeThresholds
    /\ n_workers = 1
    /\ pc = "pair"
    /\ worker_context = None
    /\ buckets = None
    /\ tasks = << >>
    /\ next_result = 1
    /\ bucket_adj = None
    /\ cand_pairs_accum = << >>
    /\ adj_matrix = {}
    /\ clusters = None
    /\ dists = None
    /\ cards = << >>
    /\ signature = None
    /\ MainIdle

SpecEdge == InitEdge /\ [][NextDist]_vars

\* the evaluated pair was recorded as an edge
EdgeRecorded == << 0, 1 >> \in adj_matrix /\ << 1, 0 >> \in adj_matrix

\* the distance the worker computed for the evaluated pair
PairDist == dists[<< 0, 1 >>]

\* C25: a candidate pair is recorded as an edge exactly when its distance
\* is at most the threshold.
C25_EdgeIffWithinThreshold ==
    pc = "pair_done" => (EdgeRecorded <=> PairDist <= threshold)

\* C25, as the code has it: a candidate pair is recorded as an edge exactly
\* when its distance is at most the threshold plus the tolerance of 1e-6;
\* so a pair at the threshold is accepted and a pair that exceeds it by one
\* step of the smallest weight or more is rejected.
C25_EdgeIffWithinTolerance ==
    pc = "pair_done" =>
        /\ EdgeRecorded <=> PairDist <= threshold + EPSILON
        /\ PairDist = threshold => EdgeRecorded
        /\ PairDist >= threshold + W_OTHER => ~EdgeRecorded
        /\ adj_matrix \subseteq {<< 0, 1 >>, << 1, 0 >>}

\* a pair whose distance equals the threshold was recorded
C25_Witness ==
    /\ pc = "pair_done"
    /\ PairDist = threshold
    /\ EdgeRecorded

(***************************************************************************)
(* The bucket-neighbour search and the candidate generation over decks of  *)
(* three Pokemon, so that buckets at Hamming distance 0 to 3 occur.        *)
(***************************************************************************)
\* the prints of the candidate generation: Eevee, Mew and Pikachu
CandPrints == {1, 2, 3}

\* single copies of every set of the prints, and a second deck of one Eevee
\* print that shares the bucket of the first
CandDecks == DecksOver(CandPrints, Cardinality(CandPrints), {1}) \cup {<< Entry(1, 2) >>}

InitCand ==
    /\ threshold = DEFAULT_THRESHOLD
    /\ InitPipeline(Datasets(CandDecks, MaxDecks))

SpecCand == InitCand /\ [][Next]_vars

RECURSIVE PopCount(_)
\* the number of bits set in m
PopCount(m) == IF m = 0 THEN 0 ELSE (m % 2) + PopCount(m \div 2)

\* the Hamming distance of the bitmasks of buckets i and j
Hamming(i, j) == PopCount(BitXor(worker_context.masks[i], worker_context.masks[j]))

BucketIds == DOMAIN buckets

\* the elements of a sequence
Elems(s) == { s[k] : k \in 1..Len(s) }

NoRepeats(s) == Cardinality(Elems(s)) = Len(s)

\* the bucket chunks the workers have completed
DoneBucketTasks == { t \in 1..Len(tasks) : pc = "buckets" /\ tasks[t].status = "done" }

\* every result of the bucket phase has been merged
BucketsMerged == (pc = "buckets" /\ next_result > Len(tasks)) \/ pc \in {"dist", "done"}

\* C26: a worker reports, for the buckets i of its range and every j > i,
\* the pair (i, j) exactly when the masks differ in at most two bits, and
\* (i, i) for every i of its range; after the merge every bucket is its own
\* neighbour and the adjacency is symmetric.
C26_NeighboursWithinTwoBits ==
    /\ \A t \in DoneBucketTasks :
          /\ Elems(tasks[t].result)
                 = { << i, j >> \in BucketIds \X BucketIds :
                        /\ i \in tasks[t].args[1]..tasks[t].args[2] - 1
                        /\ i <= j
                        /\ Hamming(i, j) \in {0, 1, 2} }
          /\ NoRepeats(tasks[t].result)
    /\ BucketsMerged =>
          \A b1, b2 \in BucketIds :
              /\ b1 \in Elems(bucket_adj.adj[b1])
              /\ b2 \in Elems(bucket_adj.adj[b1]) <=> b1 \in Elems(bucket_adj.adj[b2])
              /\ b2 \in Elems(bucket_adj.adj[b1]) <=> Hamming(b1, b2) <= 2
              /\ NoRepeats(bucket_adj.adj[b1])

\* three buckets were merged of which two differ in two bits and are
\* neighbours and two differ in three bits and are not
C26_Witness ==
    /\ BucketsMerged
    /\ \E b1, b2, b3 \in BucketIds :
          /\ Hamming(b1, b2) = 2
          /\ b2 \in Elems(bucket_adj.adj[b1])
          /\ Hamming(b1, b3) = 3
          /\ b3 \notin Elems(bucket_adj.adj[b1])

\* the candidate pairs have been generated
Generated == pc \in {"dist", "done"}

\* the unordered pairs of distinct decks of one bucket or of neighbour buckets
ExpectedCandidates ==
    { << d1, d2 >> \in Rows \X Rows :
        d1 < d2 /\ Hamming(BucketOfRow(d1), BucketOfRow(d2)) <= 2 }

\* the pairs handed to the distance evaluator
Evaluated ==
    UNION { Elems(tasks[t].args) : t \in { u \in 1..Len(tasks) : pc = "dist" } }

\* C27: the candidate list holds exactly the unordered pairs of distinct
\* decks that lie in one bucket or in neighbour buckets, each once and with
\* the smaller index first, and no other pair goes to the distance evaluator.
C27_CandidatesAreNeighbourPairs ==
    Generated =>
        /\ Elems(cand_pairs_accum) = ExpectedCandidates
        /\ NoRepeats(cand_pairs_accum)
        /\ \A k \in 1..Len(cand_pairs_accum) : cand_pairs_accum[k][1] < cand_pairs_accum[k][2]
        /\ pc = "dist" => Evaluated = ExpectedCandidates

\* candidates were generated from three buckets of which the third is a
\* neighbour of both others and the first two are no neighbours
C27_Witness ==
    /\ pc = "dist"
    /\ Len(signatures) = 3
    /\ Cardinality(BucketIds) = 3
    /\ cand_pairs_accum = << << 0, 2 >>, << 1, 2 >> >>
    /\ Hamming(BucketOfRow(0), BucketOfRow(1)) = 3

(***************************************************************************)
(* The two chunkings of cluster_decks_bucketed_parallel as functions of    *)
(* the number of buckets, of workers and of candidate pairs.               *)
(***************************************************************************)
MaxBuckets == 9
MaxCpus == 8

\* numbers of candidate pairs around the multiples of dist_chunk_size
CandidateCounts ==
    {0, 1, DIST_CHUNK_SIZE - 1, DIST_CHUNK_SIZE, DIST_CHUNK_SIZE + 1,
     2 * DIST_CHUNK_SIZE, 2 * DIST_CHUNK_SIZE + 1}

\* the (start, end) of every distance chunk
DistRanges(n_candidates) == RangeChunks(0, n_candidates, DIST_CHUNK_SIZE)

InitChunk ==
    /\ chunk_sizes \in [n_buckets : 1..MaxBuckets, n_workers : 1..MaxCpus,
                        n_candidates : CandidateCounts]
    /\ chunk_lists = << >>
    /\ tournaments = << >>
    /\ card_db = Missing
    /\ scan_args = << >>
    /\ scan_result = << >>
    /\ scans = 0
    /\ refresh_status = << >>
    /\ daily = << >>
    /\ fs = [p \in Paths |-> Missing]
    /\ output_data = None
    /\ exit_status = << >>
    /\ console = << >>
    /\ log = << >>
    /\ signatures = << >>
    /\ threshold = DEFAULT_THRESHOLD
    /\ n_workers = chunk_sizes.n_workers
    /\ pc = "sizes"
    /\ worker_context = None
    /\ buckets = None
    /\ tasks = << >>
    /\ next_result = 1
    /\ bucket_adj = None
    /\ cand_pairs_accum = << >>
    /\ adj_matrix = {}
    /\ clusters = None
    /\ dists = None
    /\ cards = << >>
    /\ signature = None

\* ranges and dist_chunks
Chunk ==
    /\ pc = "sizes"
    /\ chunk_lists' = [ranges |-> BucketRanges(chunk_sizes.n_buckets, n_workers),
                       dist_chunks |-> DistRanges(chunk_sizes.n_candidates)]
    /\ pc' = "chunked"
    /\ UNCHANGED << signatures, threshold, n_workers, worker_context, buckets, tasks,
                    next_result, bucket_adj, cand_pairs_accum, adj_matrix, clusters,
                    dists, cards, signature, fs, output_data, exit_status, console, log,
                    tournaments, card_db, scan_args, scan_result, scans, refresh_status,
                    daily, chunk_sizes >>

NextChunk == Chunk

SpecChunk == InitChunk /\ [][NextChunk]_vars

\* the chunks are non-empty, start at 0, follow one another and end at n
Contiguous(ch, n) ==
    /\ n = 0 => ch = << >>
    /\ n > 0 =>
          /\ Len(ch) >= 1
          /\ ch[1][1] = 0
          /\ ch[Len(ch)][2] = n
          /\ \A k \in 1..Len(ch) : ch[k][1] < ch[k][2]
          /\ \A k \in 1..Len(ch) - 1 : ch[k][2] = ch[k + 1][1]

\* every index of idxs lies in exactly one chunk
CoveredOnce(ch, idxs) ==
    \A x \in idxs : Cardinality({ k \in 1..Len(ch) : ch[k][1] <= x /\ x < ch[k][2] }) = 1

\* indices at the chunk boundaries and at both ends of 0..n-1
BoundaryIndices(n) ==
    { x \in {0, 1, DIST_CHUNK_SIZE - 1, DIST_CHUNK_SIZE, DIST_CHUNK_SIZE + 1,
             2 * DIST_CHUNK_SIZE - 1, 2 * DIST_CHUNK_SIZE, n - 1} : 0 <= x /\ x < n }

\* C28: for every number of buckets >= 1, of workers >= 1 and of candidate
\* pairs, the bucket ranges are disjoint and cover 0..n_buckets-1 exactly
\* once, and the distance chunks cover every candidate pair exactly once.
C28_ChunksPartition ==
    pc = "chunked" =>
        /\ Contiguous(chunk_lists.ranges, chunk_sizes.n_buckets)
        /\ CoveredOnce(chunk_lists.ranges, 0..chunk_sizes.n_buckets - 1)
        /\ \A k \in 1..Len(chunk_lists.ranges) : chunk_lists.ranges[k][2] <= chunk_sizes.n_buckets
        /\ Contiguous(chunk_lists.dist_chunks, chunk_sizes.n_candidates)
        /\ CoveredOnce(chunk_lists.dist_chunks, BoundaryIndices(chunk_sizes.n_candidates))
        /\ \A k \in 1..Len(chunk_lists.dist_chunks) :
              chunk_lists.dist_chunks[k][2] - chunk_lists.dist_chunks[k][1] <= DIST_CHUNK_SIZE

\* five buckets over four workers gave three ranges, the last one shorter,
\* and one candidate more than a chunk holds gave two chunks
C28_Witness ==
    /\ pc = "chunked"
    /\ chunk_sizes.n_buckets = 5
    /\ n_workers = 4
    /\ chunk_lists.ranges = << << 0, 2 >>, << 2, 4 >>, << 4, 5 >> >>
    /\ chunk_lists.dist_chunks = << << 0, DIST_CHUNK_SIZE >>, << DIST_CHUNK_SIZE, DIST_CHUNK_SIZE + 1 >> >>

(***************************************************************************)
(* _scan_and_aggregate (src/src/data.py).  Dates are day numbers; the      *)
(* files of a date are a record: exists (the day directory is there) and   *)
(* ts, its tournaments, each with a t_id and the rows of standings.json.   *)
(* A row holds the deck's name, its cards, the record (None for a null)    *)
(* and the player.  The cache maps every date to its tournaments, << >>    *)
(* for a date that is not in it.  A deck record carries, next to the       *)
(* fields the scan stores, players: stats.players as cluster_decks reads   *)
(* it.                                                                     *)
(***************************************************************************)
Dates == {1, 2, 3}

\* today_dt, as a day number
Today == 5

\* is_recent = (today_dt - current).days <= 2
RECENT_DAYS == 2

is_recent(current) == Today - current <= RECENT_DAYS

EmptyDates == [d \in Dates |-> << >>]

\* card_type_map.get((c["set"], c["number"]), "Unknown")
card_type(db, c) ==
    LET hits == { p \in db.prints : CardDB[p].set = c.set /\ CardDB[p].number = c.number }
    IN  IF hits = {} THEN "Unknown" ELSE CardDB[CHOOSE p \in hits : TRUE].type

ZeroStats == [wins |-> 0, losses |-> 0, ties |-> 0, players |-> 0]

\* signatures[sig] = {"name", "cards": enriched, "stats", "appearances": []}
NewDeck(sig, deck_name, normalized_cards, db) ==
    [sig |-> sig,
     name |-> deck_name,
     cards |-> [i \in 1..Len(normalized_cards) |->
                   [name |-> normalized_cards[i].name,
                    set |-> normalized_cards[i].set,
                    number |-> normalized_cards[i].number,
                    count |-> normalized_cards[i].count,
                    type |-> card_type(db, normalized_cards[i])]],
     stats |-> ZeroStats,
     appearances |-> << >>,
     players |-> 0]

\* NewDeck storing the cards in place of those of a signature already known
StoreCardsAgain(sgs, sig, deck_name, normalized_cards, db) ==
    IF \E i \in 1..Len(sgs) : sgs[i].sig = sig
    THEN [i \in 1..Len(sgs) |->
             IF sgs[i].sig = sig
             THEN [sgs[i] EXCEPT !.cards = NewDeck(sig, deck_name, normalized_cards, db).cards]
             ELSE sgs[i]]
    ELSE Append(sgs, NewDeck(sig, deck_name, normalized_cards, db))

\* if sig not in signatures: signatures[sig] = {...}
StoreDeck(sgs, sig, deck_name, normalized_cards, db) ==
    IF \E i \in 1..Len(sgs) : sgs[i].sig = sig
    THEN sgs
    ELSE Append(sgs, NewDeck(sig, deck_name, normalized_cards, db))

\* t_decks[sig] = t_decks.get(sig, 0) + 1
CountDeck(t_decks, sig) ==
    [s \in DOMAIN t_decks \cup {sig} |->
        IF s = sig THEN (IF sig \in DOMAIN t_decks THEN t_decks[sig] + 1 ELSE 1)
        ELSE t_decks[s]]

\* F applied to the value of v, which is computed once
Bind(v, F(_)) == CHOOSE y \in { F(x) : x \in {v} } : TRUE

RECURSIVE ScanPlayers(_, _, _, _, _, _)
\* for player in standings: acc holds signatures, t_decks and raised, which
\* is set when a row raised and ended the loop
ScanPlayers(acc, standings, k, t_id, date_str, db) ==
    IF k > Len(standings) \/ acc.raised THEN acc
    ELSE LET player == standings[k]
             all_cards_raw == [i \in 1..Len(player.cards) |-> RawOf(player.cards[i])]
             signed == compute_deck_signature(all_cards_raw)
             sig == signed.hash_str
             stored == StoreDeck(acc.signatures, sig, player.deck_name,
                                 signed.normalized_items, db)
             idx == CHOOSE i \in 1..Len(stored) : stored[i].sig = sig
             app == [t_id |-> t_id, player_id |-> player.player,
                     record |-> player.record, date |-> date_str]
         IN  IF all_cards_raw = << >>
             THEN ScanPlayers(acc, standings, k + 1, t_id, date_str, db)
             ELSE IF player.record = None
             THEN [signatures |-> stored, t_decks |-> acc.t_decks, raised |-> TRUE]
             ELSE Bind([signatures |-> [stored EXCEPT ![idx].appearances = Append(@, app)],
                        t_decks |-> CountDeck(acc.t_decks, sig),
                        raised |-> FALSE],
                       LAMBDA next : ScanPlayers(next, standings, k + 1, t_id, date_str, db))

RECURSIVE ScanTournaments(_, _, _, _, _)
\* for t_id in os.listdir(day_path): acc holds signatures and day_tournaments
ScanTournaments(acc, ts, n, date_str, db) ==
    IF n > Len(ts) THEN acc
    ELSE Bind(ScanPlayers([signatures |-> acc.signatures, t_decks |-> << >>,
                           raised |-> FALSE],
                          ts[n].standings, 1, ts[n].t_id, date_str, db),
              LAMBDA r :
                  Bind([signatures |-> r.signatures,
                        day_tournaments |->
                            IF ~r.raised /\ DOMAIN r.t_decks # {}
                            THEN Append(acc.day_tournaments,
                                        [t_id |-> ts[n].t_id, decks |-> r.t_decks])
                            ELSE acc.day_tournaments],
                       LAMBDA next : ScanTournaments(next, ts, n + 1, date_str, db)))

\* the scan keeping the appearances of the date it scans again
KeepAppearances(sgs, date_str) == sgs

\* signatures[sig]["appearances"] without those of date_str, for every sig
RemoveAppearances(sgs, date_str) ==
    [i \in 1..Len(sgs) |->
        [sgs[i] EXCEPT !.appearances = SelectSeq(@, LAMBDA app : app.date # date_str)]]

\* one iteration of while current <= end: st holds dates, signatures, updated
ScanDate(st, current, args, files, db) ==
    LET should_scan ==
            args.force_refresh \/ st.dates[current] = << >> \/ is_recent(current)
    IN  IF ~should_scan \/ ~files[current].exists THEN st
        ELSE Bind(ScanTournaments(
                      [signatures |-> RemoveAppearances(st.signatures, current),
                       day_tournaments |-> << >>],
                      files[current].ts, 1, current, db),
                  LAMBDA r :
                      [dates |-> IF r.day_tournaments # << >>
                                 THEN [st.dates EXCEPT ![current] = r.day_tournaments]
                                 ELSE st.dates,
                       signatures |-> r.signatures,
                       updated |-> st.updated \/ r.day_tournaments # << >>])

RECURSIVE ScanDates(_, _, _, _, _, _)
\* while current <= end
ScanDates(st, current, end, args, files, db) ==
    IF current > end THEN st
    ELSE Bind(ScanDate(st, current, args, files, db),
              LAMBDA next : ScanDates(next, current + 1, end, args, files, db))

RECURSIVE SumRecords(_, _)
\* sum(app.get("record", {}).get(field, 0) for app in apps)
SumRecords(apps, field) ==
    IF apps = << >> THEN 0 ELSE Head(apps).record[field] + SumRecords(Tail(apps), field)

\* the stats of every signature from its appearances
RecalculateStats(sgs) ==
    [i \in 1..Len(sgs) |->
        [sgs[i] EXCEPT
            !.stats = [wins |-> SumRecords(sgs[i].appearances, "wins"),
                       losses |-> SumRecords(sgs[i].appearances, "losses"),
                       ties |-> SumRecords(sgs[i].appearances, "ties"),
                       players |-> Len(sgs[i].appearances)],
            !.players = Len(sgs[i].appearances)]]

\* data.get("dates", {}), data.get("signatures", {}) of the file at path
CacheData(fsys, path) ==
    [dates |-> IF "dates" \in DOMAIN fsys[path] THEN fsys[path].dates ELSE EmptyDates,
     signatures |-> fsys[path].signatures]

\* the cache the scan starts from: CACHE_FILE, else OLD_CACHE_FILE, else empty
LoadCache(fsys) ==
    IF fsys[DATA_CACHE_FILE] # Missing THEN CacheData(fsys, DATA_CACHE_FILE)
    ELSE IF fsys[OLD_CACHE_FILE] # Missing THEN CacheData(fsys, OLD_CACHE_FILE)
    ELSE [dates |-> EmptyDates, signatures |-> << >>]

\* what _scan_and_aggregate computes: the cache, the signatures, whether it
\* is to be saved, and whether load_card_database raised
scan_and_aggregate(fsys, files, db, args) ==
    Bind(LoadCache(fsys),
         LAMBDA loaded :
             IF ~args.update_cache
             THEN [dates |-> loaded.dates, signatures |-> loaded.signatures,
                   updated |-> FALSE, raised |-> FALSE]
             ELSE IF db = Missing
             THEN [dates |-> loaded.dates, signatures |-> loaded.signatures,
                   updated |-> FALSE, raised |-> TRUE]
             ELSE Bind(ScanDates([dates |-> loaded.dates, signatures |-> loaded.signatures,
                                  updated |-> FALSE],
                                 args.start_date, args.end_date, args, files, db),
                       LAMBDA st :
                           [dates |-> st.dates,
                            signatures |-> RecalculateStats(st.signatures),
                            updated |-> st.updated \/ args.force_refresh,
                            raised |-> FALSE]))

\* pd.to_pickle({"dates": cache, "signatures": signatures}, f)
PickleOf(r) == [dates |-> r.dates, signatures |-> r.signatures]

\* the outcomes of the save: written and the old JSON cache removed, written
\* and the removal failed, or an exception before os.replace completed
SaveOutcomes == {"saved", "saved_json_kept", "failed"}

\* the files after if updated and update_cache: ...; the temporary file is
\* replaced into CACHE_FILE or removed
SaveCache(fsys, r, args, outcome) ==
    IF ~(r.updated /\ args.update_cache) \/ r.raised THEN fsys
    ELSE IF outcome = "failed" THEN [fsys EXCEPT ![temp_path] = Missing]
    ELSE [fsys EXCEPT ![DATA_CACHE_FILE] = PickleOf(r),
                      ![temp_path] = Missing,
                      ![OLD_CACHE_FILE] = IF outcome = "saved" THEN Missing ELSE @]

\* the save was attempted and failed
SaveFailed(r, args, outcome) ==
    r.updated /\ args.update_cache /\ ~r.raised /\ outcome = "failed"

(***************************************************************************)
(* Sequences of _scan_and_aggregate calls over a fixed set of tournament   *)
(* files, with the enriched cards file growing between the calls.          *)
(***************************************************************************)
MaxScans == 2

\* rows of standings.json: a Pikachu deck, a Mew deck, and a row of the
\* Pikachu deck whose record is null
RowA ==
    [deck_name |-> "Pikachu", cards |-> << Entry(3, 2) >>,
     record |-> [wins |-> 2, losses |-> 1, ties |-> 0], player |-> "p1"]
RowB ==
    [deck_name |-> "Mew", cards |-> << Entry(2, 2) >>,
     record |-> [wins |-> 0, losses |-> 1, ties |-> 1], player |-> "p2"]
RowBad ==
    [deck_name |-> "Pikachu", cards |-> << Entry(3, 2) >>,
     record |-> None, player |-> "p3"]

NoDay == [exists |-> FALSE, ts |-> << >>]
Day(standings) == [exists |-> TRUE, ts |-> << [t_id |-> "t1", standings |-> standings] >>]

\* the files a date can have: no directory, or one tournament
DayFiles == {NoDay, Day(<< RowA >>), Day(<< RowA, RowB >>), Day(<< RowA, RowBad >>)}

\* the enriched cards file with the prints ps
CardFile(ps) == [exists |-> TRUE, prints |-> ps]

AllPrints == DOMAIN CardDB

\* the arguments of a call: force_refresh, update_cache, and the dates from
\* cutoff_date to last_date
ScanArgs ==
    { [force_refresh |-> f, update_cache |-> u, start_date |-> w[1], end_date |-> w[2]] :
        f \in BOOLEAN, u \in BOOLEAN, w \in {<< 1, 3 >>, << 1, 1 >>, << 3, 3 >>} }

InitScan ==
    /\ tournaments \in [Dates -> DayFiles]
    /\ card_db \in {CardFile({}), CardFile(AllPrints)}
    /\ scan_args = << >>
    /\ scan_result = << >>
    /\ scans = 0
    /\ refresh_status = << >>
    /\ daily = << >>
    /\ chunk_sizes = << >>
    /\ chunk_lists = << >>
    /\ fs = [p \in Paths |-> Missing]
    /\ output_data = None
    /\ exit_status = << >>
    /\ console = << >>
    /\ log = << >>
    /\ signatures = << >>
    /\ threshold = DEFAULT_THRESHOLD
    /\ n_workers = 1
    /\ pc = "scan"
    /\ worker_context = None
    /\ buckets = None
    /\ tasks = << >>
    /\ next_result = 1
    /\ bucket_adj = None
    /\ cand_pairs_accum = << >>
    /\ adj_matrix = {}
    /\ clusters = None
    /\ dists = None
    /\ cards = << >>
    /\ signature = None

\* one call of _scan_and_aggregate, with its save
Scan ==
    /\ pc = "scan"
    /\ scans < MaxScans
    /\ \E args \in ScanArgs, outcome \in SaveOutcomes :
          \E r \in {scan_and_aggregate(fs, tournaments, card_db, args)} :
              /\ scan_args' = args
              /\ scan_result' = r
              /\ fs' = SaveCache(fs, r, args, outcome)
              /\ log' = IF SaveFailed(r, args, outcome)
                        THEN Append(log, "Error saving cache") ELSE log
    /\ scans' = scans + 1
    /\ UNCHANGED << signatures, threshold, n_workers, pc, worker_context, buckets, tasks,
                    next_result, bucket_adj, cand_pairs_accum, adj_matrix, clusters,
                    dists, cards, signature, output_data, exit_status, console,
                    tournaments, card_db, refresh_status, daily, chunk_sizes, chunk_lists >>

\* scripts/enrich_cards.py completes the enriched cards file
EnrichCards ==
    /\ pc = "scan"
    /\ card_db # Missing
    /\ card_db.prints # AllPrints
    /\ card_db' = CardFile(AllPrints)
    /\ UNCHANGED << signatures, threshold, n_workers, pc, worker_context, buckets, tasks,
                    next_result, bucket_adj, cand_pairs_accum, adj_matrix, clusters,
                    dists, cards, signature, fs, output_data, exit_status, console, log,
                    tournaments, scan_args, scan_result, scans, refresh_status, daily,
                    chunk_sizes, chunk_lists >>

NextScan == Scan \/ EnrichCards

SpecScan == InitScan /\ [][NextScan]_vars

\* every deck record of old is in new with the cards it has in old
CardsKept(old, new) ==
    \A i \in 1..Len(old) :
        \E j \in 1..Len(new) : new[j].sig = old[i].sig /\ new[j].cards = old[i].cards

Aggregates(r) ==
    { [sig |-> r.signatures[i].sig,
       appearances |-> r.signatures[i].appearances,
       stats |-> r.signatures[i].stats] : i \in 1..Len(r.signatures) }

\* the appearances of every signature as a set, and its stats
AggregatesUnordered(r) ==
    { [sig |-> r.signatures[i].sig,
       appearances |-> Elems(r.signatures[i].appearances),
       stats |-> r.signatures[i].stats] : i \in 1..Len(r.signatures) }

\* stats are the length and the sums of the appearances, and no standings
\* row appears twice
StatsConsistent(r) ==
    \A i \in 1..Len(r.signatures) :
        LET rec == r.signatures[i]
        IN  /\ rec.stats.players = Len(rec.appearances)
            /\ rec.stats.wins = SumRecords(rec.appearances, "wins")
            /\ rec.stats.losses = SumRecords(rec.appearances, "losses")
            /\ rec.stats.ties = SumRecords(rec.appearances, "ties")
            /\ NoRepeats(rec.appearances)

\* a scan with update_cache=True follows a scan with the same arguments
Rescan ==
    /\ scans' = scans + 1
    /\ scans >= 1
    /\ scan_args' = scan_args
    /\ scan_args.update_cache

\* C29: a scan with update_cache=True that follows a scan with the same
\* arguments over the same files returns the same appearances and stats,
\* and after every scan with update_cache=True the stats of each signature
\* are the length and the sums of its appearances, no row counted twice.
C29_RescanIdempotent ==
    [][/\ Rescan => Aggregates(scan_result') = Aggregates(scan_result)
       /\ (scans' # scans /\ scan_args'.update_cache) => StatsConsistent(scan_result')]_vars

\* C29, as the code has it: such a scan returns for every signature the
\* same appearances as a set and the same stats, and the same list when
\* force_refresh is set; after every scan with update_cache=True the stats
\* of each signature are the length and the sums of its appearances, no row
\* counted twice.
C29_RescanSameUpToOrder ==
    [][/\ Rescan => AggregatesUnordered(scan_result') = AggregatesUnordered(scan_result)
       /\ (Rescan /\ scan_args.force_refresh) => Aggregates(scan_result') = Aggregates(scan_result)
       /\ (scans' # scans /\ scan_args'.update_cache) => StatsConsistent(scan_result')]_vars

\* a second scan read the files of date 1 again, which the cache does not
\* list, and put its appearance behind that of date 2; the stats count both
\* once
C29_Witness ==
    /\ scans = 2
    /\ scan_args.update_cache
    /\ Len(scan_result.signatures) = 1
    /\ Len(scan_result.signatures[1].appearances) = 2
    /\ scan_result.signatures[1].appearances[1].date = 2
    /\ scan_result.signatures[1].appearances[2].date = 1
    /\ scan_result.signatures[1].stats = [wins |-> 4, losses |-> 2, ties |-> 0, players |-> 2]

(***************************************************************************)
(* scripts/daily_update.py: the steps before the refresh, refresh_cache,   *)
(* then cluster_decks (the actions of NextMain), each step a process whose *)
(* exit status decides whether the next one runs.                          *)
(***************************************************************************)
\* days_back=90, force_refresh=True, update_cache=True: every date with files
RefreshArgs ==
    [force_refresh |-> TRUE, update_cache |-> TRUE, start_date |-> 1, end_date |-> 3]

\* the tournament files of an earlier day
EarlierFiles == [d \in Dates |-> IF d = 1 THEN Day(<< RowA >>) ELSE NoDay]

\* the tournament files of the daily runs: those of the earlier day, and at
\* date 3 nothing or a tournament of both decks
DailyFiles ==
    { [d \in Dates |-> IF d = 1 THEN Day(<< RowA >>) ELSE IF d = 3 THEN f ELSE NoDay] :
        f \in {NoDay, Day(<< RowA, RowB >>)} }

\* the cache an earlier refresh computed
EarlierCache ==
    PickleOf(scan_and_aggregate([p \in Paths |-> Missing], EarlierFiles,
                                CardFile(AllPrints), RefreshArgs))

\* a cache of both decks, as the JSON file of a version before the pickle
BothDecksCache ==
    PickleOf(scan_and_aggregate([p \in Paths |-> Missing],
                                [d \in Dates |-> IF d = 3 THEN Day(<< RowA, RowB >>) ELSE NoDay],
                                CardFile(AllPrints), RefreshArgs))

\* a cache without signatures
EmptyCache == [dates |-> EmptyDates, signatures |-> << >>]

InitDaily ==
    /\ tournaments \in DailyFiles
    /\ card_db \in {Missing, CardFile(AllPrints)}
    /\ fs \in { [p \in Paths |->
                    IF p = DATA_CACHE_FILE THEN c
                    ELSE IF p = OLD_CACHE_FILE THEN j
                    ELSE IF p = OUTPUT THEN o
                    ELSE Missing] :
                c \in {Missing, EarlierCache},
                j \in {Missing, EmptyCache, BothDecksCache},
                o \in {Missing, PreviousOutput} }
    /\ scan_args = << >>
    /\ scan_result = << >>
    /\ scans = 0
    /\ refresh_status = << >>
    /\ daily = << >>
    /\ chunk_sizes = << >>
    /\ chunk_lists = << >>
    /\ output_data = None
    /\ exit_status = << >>
    /\ console = << >>
    /\ log = << >>
    /\ signatures = << >>
    /\ threshold = DEFAULT_THRESHOLD
    /\ n_workers \in 1..MaxWorkers
    /\ pc = "daily"
    /\ worker_context = None
    /\ buckets = None
    /\ tasks = << >>
    /\ next_result = 1
    /\ bucket_adj = None
    /\ cand_pairs_accum = << >>
    /\ adj_matrix = {}
    /\ clusters = None
    /\ dists = None
    /\ cards = << >>
    /\ signature = None

daily_vars == << signatures, threshold, n_workers, worker_context, buckets, tasks,
                 next_result, bucket_adj, cand_pairs_accum, adj_matrix, clusters, dists,
                 cards, signature, output_data, exit_status, console, chunk_sizes,
                 chunk_lists, tournaments >>

\* steps 1 to 4: update_tournaments, cleanup_cards, enrich_sets, enrich_cards;
\* the first that exits non-zero ends the daily update
UpdateSteps ==
    /\ pc = "daily"
    /\ \E ok \in BOOLEAN :
          IF ok
          THEN /\ pc' = "refresh"
               /\ daily' = daily
          ELSE /\ pc' = "daily_done"
               /\ daily' = << EXIT_EXCEPTION >>
    /\ log' = IF pc' = "daily_done" THEN Append(log, "Error running script") ELSE log
    /\ UNCHANGED << daily_vars, fs, card_db, scan_args, scan_result, scans, refresh_status >>

\* scripts/refresh_cache.py main: the scan with its save; sys.exit(1) when
\* the scan raised
RefreshCache ==
    /\ pc = "refresh"
    /\ \E outcome \in SaveOutcomes :
          \E r \in {scan_and_aggregate(fs, tournaments, card_db, RefreshArgs)} :
              /\ scan_args' = RefreshArgs
              /\ scan_result' = r
              /\ fs' = SaveCache(fs, r, RefreshArgs, outcome)
              /\ refresh_status' = IF r.raised THEN << EXIT_EXCEPTION >> ELSE << EXIT_OK >>
              /\ log' = IF r.raised THEN Append(log, "Failed to refresh cache")
                        ELSE IF SaveFailed(r, RefreshArgs, outcome)
                        THEN Append(log, "Error saving cache")
                        ELSE log
    /\ scans' = scans + 1
    /\ pc' = "refreshed"
    /\ UNCHANGED << daily_vars, card_db, daily >>

\* if not run_script("scripts/refresh_cache.py"): sys.exit(1); else step 6
AfterRefresh ==
    /\ pc = "refreshed"
    /\ IF refresh_status = << EXIT_OK >>
       THEN /\ pc' = "main"
            /\ daily' = daily
            /\ log' = log
       ELSE /\ pc' = "daily_done"
            /\ daily' = << EXIT_EXCEPTION >>
            /\ log' = Append(log, "Error running script")
    /\ UNCHANGED << daily_vars, fs, card_db, scan_args, scan_result, scans, refresh_status >>

\* if not run_script("scripts/cluster_decks.py"): sys.exit(1); else the
\* success message
AfterCluster ==
    /\ pc \in {"exited", "crashed"}
    /\ pc' = "daily_done"
    /\ daily' = IF exit_status = << EXIT_OK >> THEN << EXIT_OK >> ELSE << EXIT_EXCEPTION >>
    /\ log' = IF exit_status = << EXIT_OK >> THEN log ELSE Append(log, "Error running script")
    /\ UNCHANGED << daily_vars, fs, card_db, scan_args, scan_result, scans, refresh_status >>

NextDaily == UpdateSteps \/ RefreshCache \/ AfterRefresh \/ NextMain \/ AfterCluster

SpecDaily == InitDaily /\ [][NextDaily]_vars

\* the signatures of the clusters in the clusters file
ClusteredSigs ==
    UNION { Elems(fs[OUTPUT].items[k].signatures) : k \in 1..Len(fs[OUTPUT].items) }

\* the clusters file lists every signature of sigs in exactly one cluster
\* and nothing else
PartitionOf(sigs) ==
    /\ ClusteredSigs = sigs
    /\ \A k \in 1..Len(fs[OUTPUT].items) :
          /\ fs[OUTPUT].items[k].signatures # << >>
          /\ NoRepeats(fs[OUTPUT].items[k].signatures)
    /\ \A k, m \in 1..Len(fs[OUTPUT].items) :
          k # m => Elems(fs[OUTPUT].items[k].signatures)
                       \cap Elems(fs[OUTPUT].items[m].signatures) = {}

\* C24: when the refresh has succeeded and daily_update reports success, the
\* clustering step has read the cache the refresh wrote and has rewritten
\* the clusters file, which is a partition of exactly the signatures of the
\* refreshed cache.
C24_ClustersOfRefreshedCache ==
    (daily = << EXIT_OK >> /\ refresh_status = << EXIT_OK >>) =>
        IF fs[DATA_CACHE_FILE] = Missing \/ fs[OUTPUT] = Missing THEN FALSE
        ELSE /\ SigsOf(signatures) = SigsOf(fs[DATA_CACHE_FILE].signatures)
             /\ fs[OUTPUT].closed
             /\ fs[OUTPUT].items = output_data
             /\ PartitionOf(SigsOf(fs[DATA_CACHE_FILE].signatures))

\* logger.error("Error saving cache: ...") was called
SaveErrorLogged == \E k \in 1..Len(log) : log[k] = "Error saving cache"

\* C30: refresh_cache exits with status 0 only if that run wrote the cache
\* file; when saving fails the temporary file is removed, the previous cache
\* is left as it was, refresh_cache exits non-zero and daily_update stops
\* before the clustering.
C30_RefreshFailsWhenSaveFails ==
    /\ refresh_status = << EXIT_OK >> => fs[DATA_CACHE_FILE] = PickleOf(scan_result)
    /\ SaveErrorLogged =>
          /\ fs[temp_path] = Missing
          /\ refresh_status = << EXIT_EXCEPTION >>
          /\ pc \in {"refreshed", "daily_done"}
          /\ daily # << EXIT_OK >>

====
